---- MODULE Spec2Model ----
(***************************************************************************)
(* A model of the MAX-AI fast orchestration pipeline:                      *)
(*   - FastPlanner      (src/src/orchestrator/fast_planner.py)             *)
(*   - ParallelExecutor (src/src/orchestrator/parallel_executor.py)        *)
(*   - ToolRegistry     (src/src/tools/registry.py)                        *)
(*   - ResultPolisher   (src/src/orchestrator/result_polisher.py)          *)
(*   - fast_agent_invoke (src/src/orchestrator/graph.py)                   *)
(* and of two utilities, retry_with_backoff (src/src/utils/                *)
(* error_handling.py) and CacheManager (src/src/utils/cache.py).           *)
(*                                                                         *)
(* Eight specifications share the module:                                  *)
(*   SpecPlan    the planner, from a request (plan) or from a task list    *)
(*               handed to _schedule_tasks directly;                       *)
(*   Spec        the executor running a plan, one thread per submitted     *)
(*               task;                                                     *)
(*   SpecShared  concurrent execute calls on the singleton executor;       *)
(*   SpecCalc    _extract_calc_params on a request text;                   *)
(*   SpecPolish  one call of ResultPolisher.polish;                        *)
(*   SpecGraph   one call of fast_agent_invoke;                            *)
(*   SpecRetry   one call of a function wrapped by retry_with_backoff;     *)
(*   SpecCache   operations on one CacheManager.                           *)
(* FairSpec is Spec with the fairness the thread scheduler gives.          *)
(***************************************************************************)
EXTENDS Integers, Sequences, FiniteSets, TLC

VARIABLES
    \* ---- planner (FastPlanner.plan and its steps)
    p_pc,          \* position inside plan() / _schedule_tasks()
    request,       \* the request: features of the text, and the context
    intents,       \* _classify_intent's result
    tasks,         \* the task list being planned
    remaining,     \* _schedule_tasks: ids not yet batched
    batches,       \* _schedule_tasks: the batches built so far
    forced,        \* history: the indices of the batches the cycle branch forced
    planned,       \* the ExecutionPlan plan() returned, or NoPlan
    previous,      \* the plan an earlier call of plan() with the same arguments returned
    \* ---- executor (ParallelExecutor.execute)
    e_pc,          \* position of the batch driver
    plan,          \* the ExecutionPlan being executed
    results,       \* execute(): the cumulative result map
    batch_idx,     \* execute(): index of the current batch (1-based)
    queue,         \* the pool's work queue: submitted, not yet started task ids
    status,        \* per task: where its future is
    future,        \* per task: the ToolResult its future holds once done
    batch_results, \* _execute_batch(): the local result map
    calls,          \* history: per started task, what its worker saw and passed
    \* ---- the shared instance (concurrent execute calls)
    pools,         \* per execute call: the tasks of its current _execute_batch
    \* ---- the Calculate extractor (_extract_calc_params)
    calc_query,    \* the request text, as tokens
    calc_params,   \* the parameters the extractor returned, or NoParams
    \* ---- the polisher (ResultPolisher.polish)
    r_pc,          \* position inside polish()
    r_llm,         \* self.llm: "none" or "configured"
    r_query,       \* user_query
    r_results,     \* the result map, in insertion order
    r_calls,       \* history: generator invocations made by this call
    r_via,         \* history: how the answer was produced
    r_answer,      \* the string polish() returned, as its parts
    \* ---- the orchestrator (fast_agent_invoke)
    g_pc,          \* position inside fast_agent_invoke()
    g_messages,    \* state["messages"]: the number of messages
    g_cont,        \* the query holds a continuation word
    g_llm,         \* result_polisher.llm: "none" or "configured"
    g_plan,        \* the plan the planner returned: its number of tasks and its polish flag
    g_results,     \* the result map the executor returned, in insertion order
    g_invocations, \* history: generator invocations made while handling the request
    g_trace,       \* history: the components called, in call order
    g_response,    \* the dict fast_agent_invoke returned, or NoResponse
    \* ---- retry_with_backoff (one call of the wrapper)
    t_pc,          \* position inside wrapper()
    t_max,         \* max_retries
    t_attempt,     \* the loop variable attempt
    t_delay,       \* delay
    t_last,        \* last_exception
    t_log,         \* history: invocations of func and sleeps, in order
    t_outcome,     \* what the wrapper returned or raised, or NoOutcome
    \* ---- CacheManager
    k_rows,        \* the cache table: key -> row
    k_now,         \* time.time()
    k_last,        \* history: per key, the latest set and what followed it
    k_got          \* history: the get just made, its key and returned value, or NoGet

pvars == <<p_pc, request, intents, tasks, remaining, batches, forced, planned, previous>>
evars == <<e_pc, plan, results, batch_idx, queue, status, future, batch_results, calls>>
svars == <<pools>>
cvars == <<calc_query, calc_params>>
rvars == <<r_pc, r_llm, r_query, r_results, r_calls, r_via, r_answer>>
gvars == <<g_pc, g_messages, g_cont, g_llm, g_plan, g_results, g_invocations, g_trace, g_response>>
tvars == <<t_pc, t_max, t_attempt, t_delay, t_last, t_log, t_outcome>>
kvars == <<k_rows, k_now, k_last, k_got>>
ovars == <<gvars, tvars, kvars>>
vars == <<pvars, evars, svars, cvars, rvars, ovars>>

-----------------------------------------------------------------------------
(* Bounds of the model *)

MaxTasks == 3       \* tasks per task list
MaxDeps == 2        \* declared dependencies per task (hand-built task lists)
MaxFiles == 2       \* uploaded files per request
MaxIntents == 2     \* intents whose patterns one request text matches
NCalls == 2         \* execute calls running concurrently on the singleton
MaxBatch == 11      \* tasks in one batch of a concurrent execute call
MaxTokens == 4      \* tokens of a request text given to the Calculate extractor
MaxResults == 2     \* results in the map given to the polisher

-----------------------------------------------------------------------------
(* Generic helpers *)

Range(s) == {s[i] : i \in DOMAIN s}

Perms(S) == {s \in [1..Cardinality(S) -> S] : \A i, j \in 1..Cardinality(S) : s[i] = s[j] => i = j}

SetMax(S) == CHOOSE m \in S : \A x \in S : x <= m

EmptyMap == [k \in {} |-> 0]

Put(m, k, v) == [x \in DOMAIN m \cup {k} |-> IF x = k THEN v ELSE m[x]]

\* dict.update
Update(m, n) == [x \in DOMAIN m \cup DOMAIN n |-> IF x \in DOMAIN n THEN n[x] ELSE m[x]]

NoneVal == "None"

-----------------------------------------------------------------------------
(* Intent, Task *)

SEARCH == "search"
CALCULATE == "calculate"
CODE_EXECUTE == "code_execute"
FILE_OP == "file_op"
DATA_ANALYSIS == "data_analysis"
WEB_SCRAPE == "web_scrape"
MULTI_STEP == "multi_step"
SIMPLE_QA == "simple_qa"

Intent == {SEARCH, CALCULATE, CODE_EXECUTE, FILE_OP, DATA_ANALYSIS, WEB_SCRAPE, MULTI_STEP, SIMPLE_QA}

\* f"task_{task_id}", task_id counted from 0
TaskId(n) == "task_" \o ToString(n)

\* an id no task of a list carries
GhostId == "task_x"

Task(id, intent, tool, params, deps, priority, est) ==
    [id |-> id, intent |-> intent, tool |-> tool, params |-> params,
     dependencies |-> deps, priority |-> priority, estimated_time_ms |-> est]

Ids(ts) == {ts[i].id : i \in DOMAIN ts}

\* task_dict = {t.id: t for t in tasks}: a later task of the same id wins
TaskDict(ts) == [id \in Ids(ts) |-> ts[SetMax({i \in DOMAIN ts : ts[i].id = id})]]

-----------------------------------------------------------------------------
(* FastPlanner._schedule_tasks *)

\* ready.sort(key=priority, reverse=True): a stable sort, descending
RECURSIVE SortDesc(_, _, _)
SortDesc(seq, prio, keys) ==
    IF keys = {} THEN <<>>
    ELSE LET m == SetMax(keys)
         IN SelectSeq(seq, LAMBDA id : prio[id] = m) \o SortDesc(seq, prio, keys \ {m})

SortByPriority(seq, td) ==
    SortDesc(seq, [id \in Range(seq) |-> td[id].priority], {td[id].priority : id \in Range(seq)})

\* a readiness test that is content with one completed dependency
IsReadyAnyDep(t, completed) == t.dependencies = {} \/ t.dependencies \cap completed # {}

IsReady(t, completed) == t.dependencies = {} \/ t.dependencies \subseteq completed

\* for task_id in remaining: ... ready.append(task_id); ord is the order in
\* which the set `remaining` is iterated
ReadyList(ts, rem, ord) ==
    LET td == TaskDict(ts)
        completed == DOMAIN td \ rem
    IN SelectSeq(ord, LAMBDA id : IsReady(td[id], completed))

\* a pass without the branch of lines 441-443
NextBatchNoForce(ts, rem, ord) == SortByPriority(ReadyList(ts, rem, ord), TaskDict(ts))

\* a pass that takes only the first of the ready tasks
NextBatchOne(ts, rem, ord) ==
    LET ready == ReadyList(ts, rem, ord)
        sorted == SortByPriority(IF ready = <<>> THEN ord ELSE ready, TaskDict(ts))
    IN SubSeq(sorted, 1, 1)

\* one pass of the while loop: the batch appended
NextBatch(ts, rem, ord) ==
    LET ready == ReadyList(ts, rem, ord)
    IN SortByPriority(IF ready = <<>> THEN ord ELSE ready, TaskDict(ts))

\* the whole loop, the set `remaining` iterated in the order of ord
RECURSIVE ScheduleLoop(_, _, _, _)
ScheduleLoop(ts, rem, ord, acc) ==
    IF rem = {} THEN acc
    ELSE LET b == NextBatch(ts, rem, SelectSeq(ord, LAMBDA id : id \in rem))
         IN ScheduleLoop(ts, rem \ Range(b), ord, Append(acc, b))

ScheduleTasks(ts, ord) ==
    IF ts = <<>> THEN <<>> ELSE ScheduleLoop(ts, Ids(ts), ord, <<>>)

-----------------------------------------------------------------------------
(* Paths.  A path string is modelled by what the executor's normalisation   *)
(* reads of it: its name, whether it is quoted, absolute, and names a file  *)
(* that exists.                                                             *)

Path(name, quoted, abs, exists) == [name |-> name, quoted |-> quoted, abs |-> abs, exists |-> exists]

\* f"data/uploads/{name}", "data/temp.txt"
UploadedPath(i, kind) == Path("data/uploads/file_" \o ToString(i) \o "." \o kind, FALSE, FALSE, TRUE)
NamedPath == Path("data/uploads/named.csv", FALSE, FALSE, FALSE)
TempPath == Path("data/temp.txt", FALSE, FALSE, FALSE)

-----------------------------------------------------------------------------
(* The request.  The text is modelled by the features the planner reads:    *)
(*   matched  the intents one of whose patterns matches the text            *)
(*   kw       one of the words of line 168 occurs in the text               *)
(*   cont     a continuation keyword of line 182 occurs in the text         *)
(*   rd, wr   a read / write word of lines 360-369 occurs in the text       *)
(*   named    the text names a file (line 353)                              *)
(* and the context by the kinds of the uploaded files ("image", "doc",      *)
(* "other") and by whether prior turns exist.                               *)

PatternOrder == <<SEARCH, CALCULATE, CODE_EXECUTE, FILE_OP, DATA_ANALYSIS, WEB_SCRAPE, MULTI_STEP>>

FileKinds == {"image", "doc", "other"}

NoRequest == [matched |-> {}, kw |-> FALSE, cont |-> FALSE, rd |-> FALSE, wr |-> FALSE,
              named |-> FALSE, files |-> <<>>, turns |-> "raw"]

\* the words of line 168 are words of the first patterns of lines 56, 61, 64
KwConsistent(matched, kw) == kw => matched \cap {SEARCH, CALCULATE, CODE_EXECUTE} # {}

IsRequest(r) ==
    \E matched \in SUBSET Range(PatternOrder), kw, cont \in BOOLEAN, nf \in 0..MaxFiles :
      \E kinds \in [1..nf -> FileKinds], turns \in {"none", "messages"} :
        \E rd, wr, named \in BOOLEAN :
          /\ Cardinality(matched) <= MaxIntents
          /\ KwConsistent(matched, kw)
          \* the file words are read by _extract_file_params alone
          /\ (rd \/ wr \/ named) => (FILE_OP \in matched \/ \E i \in 1..nf : kinds[i] = "doc")
          /\ r = [matched |-> matched, kw |-> kw, cont |-> cont, rd |-> rd, wr |-> wr,
                  named |-> named, files |-> kinds, turns |-> turns]

IsImage(kind) == kind = "image"
IsDoc(kind) == kind = "doc"

-----------------------------------------------------------------------------
(* FastPlanner._classify_intent *)

\* a file loop that looks at images only
RECURSIVE FileScanImagesOnly(_, _, _)
FileScanImagesOnly(files, i, kw) ==
    IF i > Len(files) THEN <<>>
    ELSE IF IsImage(files[i]) /\ ~kw THEN <<FILE_OP>>
         ELSE FileScanImagesOnly(files, i + 1, kw)

\* lines 160-179: the loop over the uploaded files
RECURSIVE FileScan(_, _, _)
FileScan(files, i, kw) ==
    IF i > Len(files) THEN <<>>
    ELSE IF IsImage(files[i])
         THEN IF ~kw THEN <<FILE_OP>> ELSE FileScan(files, i + 1, kw)
         ELSE IF IsDoc(files[i]) THEN <<FILE_OP>> ELSE FileScan(files, i + 1, kw)

\* lines 186-190: recent_turns[-1].get(...) on a message object raises
ClassifyRaises(r) == r.cont /\ r.turns = "messages"

\* lines 193-198
PatternScan(r) == SelectSeq(PatternOrder, LAMBDA i : i \in r.matched)

\* list.remove: the first occurrence
RemoveFirst(seq, x) ==
    IF x \notin Range(seq) THEN seq
    ELSE LET k == CHOOSE i \in DOMAIN seq : seq[i] = x /\ \A j \in 1..(i-1) : seq[j] # x
         IN SubSeq(seq, 1, k - 1) \o SubSeq(seq, k + 1, Len(seq))

ClassifyIntent(r) ==
    LET detected == FileScan(r.files, 1, r.kw) \o PatternScan(r)
        kept == RemoveFirst(detected, MULTI_STEP)
    IN IF kept = <<>> THEN <<SIMPLE_QA>> ELSE kept

-----------------------------------------------------------------------------
(* FastPlanner._decompose_tasks and the parameter extractors *)

HasTool(intent) == intent \in {SEARCH, CALCULATE, CODE_EXECUTE, FILE_OP, DATA_ANALYSIS, WEB_SCRAPE}

\* intent_to_tool, lines 86-93
IntentToTool(intent) ==
    CASE intent = SEARCH -> "intelligent_search"
      [] intent = CALCULATE -> "code_execution"
      [] intent = CODE_EXECUTE -> "code_execution"
      [] intent = FILE_OP -> "file_operations"
      [] intent = DATA_ANALYSIS -> "data_analysis"
      [] intent = WEB_SCRAPE -> "file_scraper"

\* _get_priority, lines 474-484
GetPriority(intent) ==
    CASE intent = FILE_OP -> 10
      [] intent = SEARCH -> 8
      [] intent = WEB_SCRAPE -> 8
      [] intent = DATA_ANALYSIS -> 5
      [] intent = CODE_EXECUTE -> 5
      [] intent = CALCULATE -> 3
      [] OTHER -> 5

\* _estimate_task_time, lines 486-495
EstimateTaskTime(tool) ==
    CASE tool = "intelligent_search" -> 2000
      [] tool = "file_operations" -> 100
      [] tool = "code_execution" -> 1500
      [] tool = "data_analysis" -> 2000
      [] tool = "file_scraper" -> 3000
      [] OTHER -> 1000

FilePaths(r) == [i \in DOMAIN r.files |-> UploadedPath(i, r.files[i])]

\* _extract_file_params, lines 341-377
ExtractFileParams(r) ==
    LET known == r.files # <<>> \/ r.named
        path == IF r.files # <<>> THEN FilePaths(r)[1] ELSE IF r.named THEN NamedPath ELSE TempPath
        operation == IF known THEN (IF r.wr THEN "write" ELSE "read")
                     ELSE IF r.rd THEN "read" ELSE IF r.wr THEN "write" ELSE "list"
    IN [operation |-> operation, file_path |-> path]

\* param_extractors, lines 96-101, 272-273
ExtractParams(intent, r) ==
    CASE intent = SEARCH -> [query |-> "clean_query", max_results |-> 5]
      [] intent = CALCULATE -> [code |-> "calc_code"]
      [] intent = FILE_OP -> ExtractFileParams(r)
      [] intent = DATA_ANALYSIS -> [code |-> "describe_code"]
      [] OTHER -> EmptyMap

ImageIndices(r) == {i \in DOMAIN r.files : IsImage(r.files[i])}

\* lines 229-249: one vision task per image, in upload order
RECURSIVE ImageTasks(_, _, _)
ImageTasks(r, i, n) ==
    IF i > Len(r.files) THEN <<>>
    ELSE IF IsImage(r.files[i])
         THEN <<Task(TaskId(n), FILE_OP, "vision_analysis",
                     [image_path |-> FilePaths(r)[i], question |-> "clean_query"], {}, 1, 8000)>>
              \o ImageTasks(r, i + 1, n + 1)
         ELSE ImageTasks(r, i + 1, n)

\* an intent loop that keeps the FileOp intent when images were handled
RECURSIVE IntentTasksKeepFileOp(_, _, _, _)
IntentTasksKeepFileOp(r, ins, i, n) ==
    IF i > Len(ins) THEN <<>>
    ELSE LET intent == ins[i]
         IN IF intent = SIMPLE_QA \/ ~HasTool(intent)
            THEN IntentTasksKeepFileOp(r, ins, i + 1, n)
            ELSE <<Task(TaskId(n), intent, IntentToTool(intent), ExtractParams(intent, r), {},
                        GetPriority(intent), EstimateTaskTime(IntentToTool(intent)))>>
                 \o IntentTasksKeepFileOp(r, ins, i + 1, n + 1)

\* lines 252-287
RECURSIVE IntentTasks(_, _, _, _)
IntentTasks(r, ins, i, n) ==
    IF i > Len(ins) THEN <<>>
    ELSE LET intent == ins[i]
         IN IF \/ intent = SIMPLE_QA
               \/ (intent = FILE_OP /\ ImageIndices(r) # {})
               \/ ~HasTool(intent)
            THEN IntentTasks(r, ins, i + 1, n)
            ELSE <<Task(TaskId(n), intent, IntentToTool(intent), ExtractParams(intent, r), {},
                        GetPriority(intent), EstimateTaskTime(IntentToTool(intent)))>>
                 \o IntentTasks(r, ins, i + 1, n + 1)

DecomposeTasks(r, ins) ==
    LET images == ImageTasks(r, 1, 0)
    IN images \o IntentTasks(r, ins, 1, Len(images))

-----------------------------------------------------------------------------
(* FastPlanner._analyze_dependencies *)

\* a dependency rule under which, besides, code tasks wait for the analysis
AnalyzeDependenciesChained(ts) ==
    [i \in DOMAIN ts |->
        IF ts[i].intent = DATA_ANALYSIS
        THEN [ts[i] EXCEPT !.dependencies =
                 @ \cup {ts[j].id : j \in {k \in DOMAIN ts : ts[k].intent = FILE_OP /\ ts[k].id # ts[i].id}}]
        ELSE IF ts[i].intent = CODE_EXECUTE
             THEN [ts[i] EXCEPT !.dependencies =
                      @ \cup {ts[j].id : j \in {k \in DOMAIN ts : ts[k].intent = DATA_ANALYSIS}}]
             ELSE ts[i]]

\* a dependency rule that also makes the search tasks inputs of the analysis
AnalyzeDependenciesWithSearch(ts) ==
    [i \in DOMAIN ts |->
        IF ts[i].intent = DATA_ANALYSIS
        THEN [ts[i] EXCEPT !.dependencies =
                 @ \cup {ts[j].id : j \in {k \in DOMAIN ts :
                                              ts[k].intent \in {FILE_OP, SEARCH} /\ ts[k].id # ts[i].id}}]
        ELSE ts[i]]

\* lines 398-414
AnalyzeDependencies(ts) ==
    [i \in DOMAIN ts |->
        IF ts[i].intent = DATA_ANALYSIS
        THEN [ts[i] EXCEPT !.dependencies =
                 @ \cup {ts[j].id : j \in {k \in DOMAIN ts : ts[k].intent = FILE_OP /\ ts[k].id # ts[i].id}}]
        ELSE ts[i]]

-----------------------------------------------------------------------------
(* FastPlanner._estimate_total_time, _needs_polish *)

\* an estimate that adds up the tasks one after the other
RECURSIVE EstimateTotalTimeSerial(_, _)
EstimateTotalTimeSerial(bs, ts) ==
    IF ts = <<>> THEN 0
    ELSE Head(ts).estimated_time_ms + EstimateTotalTimeSerial(bs, Tail(ts))

\* lines 453-472
RECURSIVE EstimateTotalTime(_, _)
EstimateTotalTime(bs, ts) ==
    IF bs = <<>> THEN 0
    ELSE SetMax({TaskDict(ts)[id].estimated_time_ms : id \in Range(Head(bs))})
         + EstimateTotalTime(Tail(bs), ts)

\* a polish flag that is set only when a tool intent was detected
NeedsPolishIfTools(ins) == \E i \in DOMAIN ins : ins[i] # SIMPLE_QA

\* lines 497-505
NeedsPolish(ins) == TRUE

NoPlan == [tasks |-> <<>>, parallel_batches |-> <<>>, total_estimated_ms |-> -1, requires_llm_polish |-> FALSE]

-----------------------------------------------------------------------------
(* Task lists handed to _schedule_tasks directly: unique ids, any dependency *)
(* sets over the ids of the list and one id outside it, cycles included.     *)

Priorities == {5, 10}

DepSets(n) == {d \in SUBSET ({TaskId(i) : i \in 0..(n-1)} \cup {GhostId}) : Cardinality(d) <= MaxDeps}

RawTask(i, deps, prio) == Task(TaskId(i - 1), CODE_EXECUTE, "code_execution", EmptyMap, deps, prio, 1500)

\* tasks is one of the task lists of at most MaxTasks tasks
IsRawTaskList(ts) ==
    \E n \in 0..MaxTasks :
        \E d \in [1..n -> DepSets(n)], p \in [1..n -> Priorities] :
            ts = [i \in 1..n |-> RawTask(i, d[i], p[i])]

-----------------------------------------------------------------------------
(* Planner actions *)

\* no concurrent execute calls
SOff == pools = <<>>

\* the Calculate extractor is not running
\* no parameters extracted yet
NoParams == [code |-> [form |-> "none"]]

COff == calc_query = <<>> /\ calc_params = NoParams

\* polish() is not running
ROff ==
    /\ r_pc = "off"
    /\ r_llm = "none"
    /\ r_query = NoneVal
    /\ r_results = <<>>
    /\ r_calls = 0
    /\ r_via = "none"
    /\ r_answer = <<>>

NoResponse == [none |-> TRUE]

GOff ==
    /\ g_pc = "off"
    /\ g_messages = 0
    /\ g_cont = FALSE
    /\ g_llm = "none"
    /\ g_plan = NoPlan
    /\ g_results = <<>>
    /\ g_invocations = 0
    /\ g_trace = <<>>
    /\ g_response = NoResponse

NoOutcome == [kind |-> "none"]

TOff ==
    /\ t_pc = "off"
    /\ t_max = 0
    /\ t_attempt = 0
    /\ t_delay = 0
    /\ t_last = NoneVal
    /\ t_log = <<>>
    /\ t_outcome = NoOutcome

NoGet == [key |-> "none"]

KOff ==
    /\ k_rows = EmptyMap
    /\ k_now = 0
    /\ k_last = EmptyMap
    /\ k_got = NoGet

OOff == GOff /\ TOff /\ KOff

EOff ==
    /\ e_pc = "off"
    /\ plan = NoPlan
    /\ results = EmptyMap
    /\ batch_idx = 0
    /\ queue = <<>>
    /\ status = EmptyMap
    /\ future = EmptyMap
    /\ batch_results = EmptyMap
    /\ calls = EmptyMap

\* plan(user_query, context) is called, or _schedule_tasks(tasks) directly
InitPlan ==
    /\ \/ /\ p_pc = "classify"
          /\ IsRequest(request)
          /\ tasks = <<>>
       \/ /\ p_pc = "schedule"
          /\ request = NoRequest
          /\ IsRawTaskList(tasks)
    /\ intents = <<>>
    /\ remaining = {}
    /\ batches = <<>>
    /\ forced = {}
    /\ planned = NoPlan
    /\ previous = NoPlan
    /\ EOff
    /\ SOff
    /\ COff
    /\ ROff
    /\ OOff

\* line 123; an exception of _classify_intent leaves plan()
Classify ==
    /\ p_pc = "classify"
    /\ IF ClassifyRaises(request)
       THEN p_pc' = "raised" /\ intents' = intents
       ELSE p_pc' = "decompose" /\ intents' = ClassifyIntent(request)
    /\ UNCHANGED <<request, tasks, remaining, batches, forced, planned, previous, evars, svars, cvars, rvars, ovars>>

\* line 126
Decompose ==
    /\ p_pc = "decompose"
    /\ tasks' = DecomposeTasks(request, intents)
    /\ p_pc' = "deps"
    /\ UNCHANGED <<request, intents, remaining, batches, forced, planned, previous, evars, svars, cvars, rvars, ovars>>

\* line 129
AnalyzeDeps ==
    /\ p_pc = "deps"
    /\ tasks' = AnalyzeDependencies(tasks)
    /\ p_pc' = "schedule"
    /\ UNCHANGED <<request, intents, remaining, batches, forced, planned, previous, evars, svars, cvars, rvars, ovars>>

\* lines 423-429
ScheduleStart ==
    /\ p_pc = "schedule"
    /\ IF tasks = <<>>
       THEN p_pc' = "scheduled" /\ remaining' = {}
       ELSE p_pc' = "loop" /\ remaining' = Ids(tasks)
    /\ batches' = <<>>
    /\ UNCHANGED <<request, intents, tasks, forced, planned, previous, evars, svars, cvars, rvars, ovars>>

\* lines 431-449, one pass
ScheduleIter ==
    /\ p_pc = "loop"
    /\ remaining # {}
    /\ \E ord \in Perms(remaining) :
          LET b == NextBatch(tasks, remaining, ord)
          IN /\ batches' = Append(batches, b)
             /\ remaining' = remaining \ Range(b)
             /\ forced' = IF ReadyList(tasks, remaining, ord) = <<>>
                          THEN forced \cup {Len(batches) + 1} ELSE forced
    /\ UNCHANGED <<p_pc, request, intents, tasks, planned, previous, evars, svars, cvars, rvars, ovars>>

\* line 451
ScheduleReturn ==
    /\ p_pc = "loop"
    /\ remaining = {}
    /\ p_pc' = "scheduled"
    /\ UNCHANGED <<request, intents, tasks, remaining, batches, forced, planned, previous, evars, svars, cvars, rvars, ovars>>

\* lines 135-145; a direct call of _schedule_tasks ends with its return
PlanReturn ==
    /\ p_pc = "scheduled"
    /\ p_pc' = "done"
    /\ planned' = IF request = NoRequest THEN planned
                  ELSE [tasks |-> tasks, parallel_batches |-> batches,
                        total_estimated_ms |-> EstimateTotalTime(batches, tasks),
                        requires_llm_polish |-> NeedsPolish(intents)]
    /\ UNCHANGED <<request, intents, tasks, remaining, batches, forced, previous, evars, svars, cvars, rvars, ovars>>

\* plan() is called once more with the same user_query and context: lines 114-115
PlanAgain ==
    /\ p_pc = "done"
    /\ request # NoRequest
    /\ previous = NoPlan
    /\ previous' = planned
    /\ p_pc' = "classify"
    /\ intents' = <<>>
    /\ tasks' = <<>>
    /\ remaining' = {}
    /\ batches' = <<>>
    /\ forced' = {}
    /\ planned' = NoPlan
    /\ UNCHANGED <<request, evars, svars, cvars, rvars, ovars>>

NextPlan ==
    \/ Classify \/ Decompose \/ AnalyzeDeps
    \/ ScheduleStart \/ ScheduleIter \/ ScheduleReturn \/ PlanReturn
    \/ PlanAgain

SpecPlan == InitPlan /\ [][NextPlan]_vars

-----------------------------------------------------------------------------
(* ToolRegistry, ToolResult *)

\* the names registry.py registers
Registered ==
    {"intelligent_search", "code_execution", "file_scraper", "browser_automation",
     "sql_database", "file_operations", "git_operations", "image_processing",
     "pdf_operations", "data_analysis", "http_client", "vision_analysis",
     "shell_command", "none"}

\* a lookup that falls back to the placeholder tool "none"
RegistryGetOrPlaceholder(name) == IF name \in Registered THEN name ELSE "none"

\* ToolRegistry.get: the tool's function, or None
RegistryGet(name) == IF name \in Registered THEN name ELSE NoneVal

ToolResult(task_id, tool, success, output, error, elapsed_ms) ==
    [task_id |-> task_id, tool |-> tool, success |-> success, output |-> output,
     error |-> error, elapsed_ms |-> elapsed_ms]

\* error texts, as the sequence of their parts; None is the empty sequence
NoError == <<>>
NotFoundText(tool) == <<"tool", tool, "not found">>
TimeoutText(secs) == <<"task timeout", ToString(secs), "seconds">>
StrOf(e) == <<e.msg>>

DEFAULT_TIMEOUT == 60
SEARCH_TIMEOUT == 30
FILE_TIMEOUT == 10
MaxWorkers == 10

\* _get_timeout, seconds
GetTimeout(task) ==
    IF task.intent = SEARCH THEN SEARCH_TIMEOUT
    ELSE IF task.intent \in {FILE_OP, DATA_ANALYSIS} THEN FILE_TIMEOUT
    ELSE DEFAULT_TIMEOUT

-----------------------------------------------------------------------------
(* ParallelExecutor._resolve_params *)

\* strip("'\""), Path(p), path.resolve() when the path does not exist, str(path)
NormalizePath(p) == [p EXCEPT !.quoted = FALSE, !.abs = IF p.exists THEN @ ELSE TRUE]

\* lines 219-259
NormalizeParams(params) ==
    [k \in DOMAIN params |->
        IF k \in {"image_path", "file_path"} THEN NormalizePath(params[k]) ELSE params[k]]

\* an injection that ignores the success flag of the dependency's result
InjectOneAnyResult(task, params, prev, dep) ==
    IF dep \in DOMAIN prev
    THEN IF task.intent = DATA_ANALYSIS THEN Put(params, "data", prev[dep].output)
         ELSE IF task.intent = FILE_OP /\ "operation" \in DOMAIN task.params
                 /\ task.params["operation"] = "write"
              THEN Put(params, "content", prev[dep].output)
              ELSE params
    ELSE params

\* an injection that does not look at the operation of a file task
InjectOneAnyOperation(task, params, prev, dep) ==
    IF dep \in DOMAIN prev /\ prev[dep].success
    THEN IF task.intent = DATA_ANALYSIS THEN Put(params, "data", prev[dep].output)
         ELSE IF task.intent = FILE_OP THEN Put(params, "content", prev[dep].output)
              ELSE params
    ELSE params

\* lines 264-274, for one dep_id
InjectOne(task, params, prev, dep) ==
    IF dep \in DOMAIN prev /\ prev[dep].success
    THEN IF task.intent = DATA_ANALYSIS THEN Put(params, "data", prev[dep].output)
         ELSE IF task.intent = FILE_OP /\ "operation" \in DOMAIN task.params
                 /\ task.params["operation"] = "write"
              THEN Put(params, "content", prev[dep].output)
              ELSE params
    ELSE params

\* lines 262-274: the loop over task.dependencies, a set iterated in the order ord
RECURSIVE InjectAll(_, _, _, _, _)
InjectAll(task, params, prev, ord, i) ==
    IF i > Len(ord) THEN params
    ELSE InjectAll(task, InjectOne(task, params, prev, ord[i]), prev, ord, i + 1)

\* a resolution that writes into the task's own dict
TaskParamsAliased(task, resolved) == resolved

\* line 217: params is a copy, the task's dict stays as it was
TaskParamsAfter(task, resolved) == task.params

\* a resolution that leaves the paths as they are
ResolveParamsNoPaths(task, prev, ord) == InjectAll(task, task.params, prev, ord, 1)

ResolveParams(task, prev, ord) == InjectAll(task, NormalizeParams(task.params), prev, ord, 1)

-----------------------------------------------------------------------------
(* ParallelExecutor._execute_task: the results it builds *)

\* lines 152-158
NotFoundResult(task) == ToolResult(task.id, task.tool, FALSE, NoneVal, NotFoundText(task.tool), 0)

\* lines 178-184
SuccessResult(task, output, secs) == ToolResult(task.id, task.tool, TRUE, output, NoError, secs * 1000)

\* lines 186-196
ExceptionResult(task, e, secs) == ToolResult(task.id, task.tool, FALSE, NoneVal, StrOf(e), secs * 1000)

\* lines 114-123
TimeoutResult(task) ==
    ToolResult(task.id, task.tool, FALSE, NoneVal, TimeoutText(GetTimeout(task)), GetTimeout(task) * 1000)

\* what the tools do: the seconds a call may take, its value, its exception
Durations == {1, 45, 90}
ToolOutput(id) == "out_" \o id
ToolException == [type |-> "ValueError", msg |-> "bad input"]

-----------------------------------------------------------------------------
(* Plans handed to execute: the batches are those of _schedule_tasks         *)

Kinds == {"read", "write", "analysis", "search", "calc", "unknown"}
ProducerKinds == {"read", "unknown"}
ConsumerKinds == {"read", "write", "analysis", "search", "calc"}

KindTask(kind, i, deps) ==
    CASE kind = "read" ->
           Task(TaskId(i - 1), FILE_OP, IntentToTool(FILE_OP),
                ExtractFileParams([NoRequest EXCEPT !.rd = TRUE]), deps,
                GetPriority(FILE_OP), EstimateTaskTime(IntentToTool(FILE_OP)))
      [] kind = "write" ->
           Task(TaskId(i - 1), FILE_OP, IntentToTool(FILE_OP),
                ExtractFileParams([NoRequest EXCEPT !.wr = TRUE]), deps,
                GetPriority(FILE_OP), EstimateTaskTime(IntentToTool(FILE_OP)))
      [] kind = "analysis" ->
           Task(TaskId(i - 1), DATA_ANALYSIS, IntentToTool(DATA_ANALYSIS),
                ExtractParams(DATA_ANALYSIS, NoRequest), deps,
                GetPriority(DATA_ANALYSIS), EstimateTaskTime(IntentToTool(DATA_ANALYSIS)))
      [] kind = "search" ->
           Task(TaskId(i - 1), SEARCH, IntentToTool(SEARCH),
                ExtractParams(SEARCH, NoRequest), deps,
                GetPriority(SEARCH), EstimateTaskTime(IntentToTool(SEARCH)))
      [] kind = "calc" ->
           Task(TaskId(i - 1), CALCULATE, IntentToTool(CALCULATE),
                ExtractParams(CALCULATE, NoRequest), deps,
                GetPriority(CALCULATE), EstimateTaskTime(IntentToTool(CALCULATE)))
      [] kind = "unknown" ->
           Task(TaskId(i - 1), CODE_EXECUTE, "no_such_tool", EmptyMap, deps,
                GetPriority(CODE_EXECUTE), EstimateTaskTime("no_such_tool"))

Shapes == {"none", "chain", "fanin", "cycle", "ghost"}

\* the dependency set of task i of n
ShapeDeps(shape, n, i) ==
    CASE shape = "none" -> {}
      [] shape = "chain" -> IF i > 1 THEN {TaskId(i - 2)} ELSE {}
      [] shape = "fanin" -> IF i = n THEN {TaskId(j - 1) : j \in 1..(n - 1)} ELSE {}
      [] shape = "cycle" -> IF i = n THEN {TaskId(0)} ELSE IF i = 1 THEN {TaskId(n - 1)} ELSE {}
      [] shape = "ghost" -> IF i = n THEN {GhostId} ELSE {}

MakePlan(ts, ord) ==
    [tasks |-> ts, parallel_batches |-> ScheduleTasks(ts, ord),
     total_estimated_ms |-> EstimateTotalTime(ScheduleTasks(ts, ord), ts),
     requires_llm_polish |-> NeedsPolish(<<>>)]

-----------------------------------------------------------------------------
(* ParallelExecutor.execute *)

POff ==
    /\ p_pc = "off"
    /\ request = NoRequest
    /\ intents = <<>>
    /\ tasks = <<>>
    /\ remaining = {}
    /\ batches = <<>>
    /\ forced = {}
    /\ planned = NoPlan
    /\ previous = NoPlan

\* execute(plan) is called: lines 53-54
Init ==
    /\ POff
    /\ SOff
    /\ COff
    /\ ROff
    /\ OOff
    /\ \E n \in 0..MaxTasks, shape \in Shapes :
         \E kinds \in [1..n -> Kinds] :
           /\ \A i \in 1..n : kinds[i] \in (IF i = n THEN ConsumerKinds ELSE ProducerKinds)
           /\ LET ts == [i \in 1..n |-> KindTask(kinds[i], i, ShapeDeps(shape, n, i))]
              IN \E ord \in Perms(Ids(ts)) : plan = MakePlan(ts, ord)
    /\ e_pc = "batch"
    /\ results = EmptyMap
    /\ batch_idx = 1
    /\ queue = <<>>
    /\ status = [id \in Ids(plan.tasks) |-> "pending"]
    /\ future = EmptyMap
    /\ batch_results = EmptyMap
    /\ calls = EmptyMap

PlanTask(id) == TaskDict(plan.tasks)[id]

\* a selection that takes every task of the plan for every batch
BatchTaskIdsUnfiltered(k) == [i \in DOMAIN plan.tasks |-> plan.tasks[i].id]

\* line 64: [t for t in plan.tasks if t.id in batch], as ids
BatchTaskIds(k) ==
    LET sel == SelectSeq(plan.tasks, LAMBDA t : t.id \in Range(plan.parallel_batches[k]))
    IN [i \in DOMAIN sel |-> sel[i].id]

\* the dict handed to the workers as previous_results, merged with the batch's own results
PreviousResultsLive == Update(results, batch_results)

\* lines 63-66, 92: the dict handed to the workers as previous_results
PreviousResults == results

\* a with-block that is left once one future is done
BatchCompleteFirst(ids) == ids = {} \/ \E id \in ids : status[id] = "collected"

\* lines 86, 98: as_completed is exhausted and the pool has shut down
BatchComplete(ids) == \A id \in ids : status[id] = "collected"

\* a collection that records successful results only
StoreResultIfSuccess(br, id, res) == IF res.success THEN Put(br, id, res) ELSE br

\* line 104 (116, 126): results[task.id] = result
StoreResult(br, id, res) == Put(br, id, res)

\* lines 98-123: future.result(timeout) of a future as_completed yielded
FutureResult(task, st, fut) == IF st = "done" THEN fut ELSE TimeoutResult(task)

Busy == {id \in DOMAIN status : status[id] \in {"calling", "blocked"}}

\* lines 59-66, 83-95: the next batch's tasks are submitted to a new pool
SubmitBatch ==
    /\ e_pc = "batch"
    /\ batch_idx <= Len(plan.parallel_batches)
    /\ queue' = BatchTaskIds(batch_idx)
    /\ status' = [id \in DOMAIN status |->
                    IF id \in Range(BatchTaskIds(batch_idx)) THEN "queued" ELSE status[id]]
    /\ batch_results' = EmptyMap
    /\ e_pc' = "collect"
    /\ UNCHANGED <<plan, results, batch_idx, future, calls, pvars, svars, cvars, rvars, ovars>>

\* a worker takes the next task: _execute_task up to the tool call, lines 145-170
Start ==
    /\ queue # <<>>
    /\ Cardinality(Busy) < MaxWorkers
    /\ LET id == Head(queue)
           task == PlanTask(id)
       IN IF RegistryGet(task.tool) = NoneVal
          THEN /\ future' = Put(future, id, NotFoundResult(task))
               /\ status' = [status EXCEPT ![id] = "done"]
               /\ calls' = calls
               /\ plan' = plan
          ELSE /\ \E ord \in Perms(task.dependencies) :
                    LET params == ResolveParams(task, PreviousResults, ord)
                    IN /\ calls' = Put(calls, id,
                                       [params |-> params,
                                        seen |-> PreviousResults, local |-> batch_results,
                                        batch |-> batch_idx,
                                        count |-> IF id \in DOMAIN calls
                                                  THEN calls[id].count + 1 ELSE 1,
                                        outcome |-> "running", secs |-> 0])
                       /\ plan' = [plan EXCEPT !.tasks =
                                     [i \in DOMAIN @ |->
                                        IF @[i].id = id
                                        THEN [@[i] EXCEPT !.params = TaskParamsAfter(task, params)]
                                        ELSE @[i]]]
               /\ status' = [status EXCEPT ![id] = "calling"]
               /\ future' = future
    /\ queue' = Tail(queue)
    /\ UNCHANGED <<e_pc, results, batch_idx, batch_results, pvars, svars, cvars, rvars, ovars>>

\* the tool returns a value: lines 170-184
ToolReturns(id) ==
    /\ status[id] = "calling"
    /\ \E secs \in Durations :
         /\ future' = Put(future, id, SuccessResult(PlanTask(id), ToolOutput(id), secs))
         /\ calls' = [calls EXCEPT ![id].outcome = "returned", ![id].secs = secs]
    /\ status' = [status EXCEPT ![id] = "done"]
    /\ UNCHANGED <<e_pc, plan, results, batch_idx, queue, batch_results, pvars, svars, cvars, rvars, ovars>>

\* the tool raises: lines 186-196
ToolRaises(id) ==
    /\ status[id] = "calling"
    /\ \E secs \in Durations :
         /\ future' = Put(future, id, ExceptionResult(PlanTask(id), ToolException, secs))
         /\ calls' = [calls EXCEPT ![id].outcome = "raised", ![id].secs = secs]
    /\ status' = [status EXCEPT ![id] = "done"]
    /\ UNCHANGED <<e_pc, plan, results, batch_idx, queue, batch_results, pvars, svars, cvars, rvars, ovars>>

\* the tool never returns
ToolBlocks(id) ==
    /\ status[id] = "calling"
    /\ status' = [status EXCEPT ![id] = "blocked"]
    /\ calls' = [calls EXCEPT ![id].outcome = "blocked"]
    /\ UNCHANGED <<e_pc, plan, results, batch_idx, queue, future, batch_results, pvars, svars, cvars, rvars, ovars>>

\* as_completed yields a finished future: lines 98-104
Collect(id) ==
    /\ e_pc = "collect"
    /\ status[id] = "done"
    /\ batch_results' = StoreResult(batch_results, id, FutureResult(PlanTask(id), status[id], future[id]))
    /\ status' = [status EXCEPT ![id] = "collected"]
    /\ UNCHANGED <<e_pc, plan, results, batch_idx, queue, future, calls, pvars, svars, cvars, rvars, ovars>>

\* the with-block ends, _execute_batch returns, results.update: lines 135, 68
FinishBatch ==
    /\ e_pc = "collect"
    /\ BatchComplete(Range(BatchTaskIds(batch_idx)))
    /\ results' = Update(results, batch_results)
    /\ batch_idx' = batch_idx + 1
    /\ e_pc' = "batch"
    /\ UNCHANGED <<plan, queue, status, future, batch_results, calls, pvars, svars, cvars, rvars, ovars>>

\* line 73
Return ==
    /\ e_pc = "batch"
    /\ batch_idx > Len(plan.parallel_batches)
    /\ e_pc' = "done"
    /\ UNCHANGED <<plan, results, batch_idx, queue, status, future, batch_results, calls, pvars, svars, cvars, rvars, ovars>>

Next ==
    \/ SubmitBatch
    \/ Start
    \/ \E id \in DOMAIN status : ToolReturns(id)
    \/ \E id \in DOMAIN status : ToolRaises(id)
    \/ \E id \in DOMAIN status : ToolBlocks(id)
    \/ \E id \in DOMAIN status : Collect(id)
    \/ FinishBatch
    \/ Return

Spec == Init /\ [][Next]_vars

-----------------------------------------------------------------------------
(* Properties of the planner *)

\* _schedule_tasks has returned
Scheduled == p_pc \in {"scheduled", "done"}

\* the index of the batch that holds id
BatchIndex(bs, id) == CHOOSE k \in DOMAIN bs : id \in Range(bs[k])

Batched(bs) == UNION {Range(bs[k]) : k \in DOMAIN bs}

UniqueIds(ts) == \A i, j \in DOMAIN ts : ts[i].id = ts[j].id => i = j

\* every dependency names a task of the list
Closed(ts) == \A i \in DOMAIN ts : ts[i].dependencies \subseteq Ids(ts)

\* the dependency graph has a topological numbering
Acyclic(ts) ==
    \E f \in [DOMAIN ts -> DOMAIN ts] :
        \A i, j \in DOMAIN ts : ts[j].id \in ts[i].dependencies => f[j] < f[i]

\* C1: in every plan plan() returns, and in the batches _schedule_tasks
\* returns for an acyclic task list whose dependencies name tasks of the
\* list, each dependency of a task lies in a batch of strictly smaller index
\* than the task's own batch.
C1_DependenciesInEarlierBatch ==
    (Scheduled /\ (request # NoRequest \/ (Acyclic(tasks) /\ Closed(tasks)))) =>
        \A i \in DOMAIN tasks : \A d \in tasks[i].dependencies :
            /\ d \in Batched(batches)
            /\ tasks[i].id \in Batched(batches)
            /\ BatchIndex(batches, d) < BatchIndex(batches, tasks[i].id)

\* a chain over three batches, one task with two dependencies
C1_Witness ==
    /\ Scheduled /\ request = NoRequest
    /\ Acyclic(tasks) /\ Closed(tasks)
    /\ Len(batches) = 3
    /\ \E i \in DOMAIN tasks : Cardinality(tasks[i].dependencies) = 2

\* C2: for a task list with unique ids - cycles and dependencies on absent
\* ids included - the batches hold every id of the list exactly once and no
\* other id, no batch is empty, and there is no batch exactly when there is
\* no task.  While the loop runs the batches built so far are non-empty,
\* disjoint and hold exactly the ids no longer in `remaining`.
C2_BatchesPartitionTasks ==
    (p_pc \in {"loop", "scheduled", "done"} /\ UniqueIds(tasks)) =>
        /\ \A k \in DOMAIN batches :
              /\ batches[k] # <<>>
              /\ \A a, b \in DOMAIN batches[k] : batches[k][a] = batches[k][b] => a = b
        /\ \A k, l \in DOMAIN batches : k # l => Range(batches[k]) \cap Range(batches[l]) = {}
        /\ Batched(batches) = Ids(tasks) \ remaining
        /\ Scheduled => (remaining = {} /\ (batches = <<>> <=> tasks = <<>>))

\* a cyclic list with a dependency on an absent id has been scheduled
C2_Witness ==
    /\ Scheduled /\ request = NoRequest
    /\ Len(tasks) = MaxTasks
    /\ ~Acyclic(tasks) /\ ~Closed(tasks)
    /\ forced # {}
    /\ Len(batches) >= 2

-----------------------------------------------------------------------------
(* Concurrent execute calls on the singleton parallel_executor *)

IdlePool == [active |-> FALSE, queued |-> 0, running |-> 0]

\* the threads in use that limit the pool of call c: line 86 makes a pool
\* of max_workers threads inside each _execute_batch call
PoolInUse(c) == pools[c].running

\* graph.invoke runs on the web layer's threads: each call executes its plan
InitShared ==
    /\ POff
    /\ EOff
    /\ pools = [c \in 1..NCalls |-> IdlePool]
    /\ COff
    /\ ROff
    /\ OOff

\* lines 86-95: call c enters _execute_batch and submits the n tasks of a batch
SharedSubmit(c, n) ==
    /\ ~pools[c].active
    /\ pools' = [pools EXCEPT ![c] = [active |-> TRUE, queued |-> n, running |-> 0]]
    /\ UNCHANGED <<pvars, evars, cvars, rvars, ovars>>

\* a free thread of the pool takes a submitted task and invokes its tool
SharedStart(c) ==
    /\ pools[c].queued > 0
    /\ PoolInUse(c) < MaxWorkers
    /\ pools' = [pools EXCEPT ![c].queued = @ - 1, ![c].running = @ + 1]
    /\ UNCHANGED <<pvars, evars, cvars, rvars, ovars>>

\* a tool call ends (returns or raises)
SharedFinish(c) ==
    /\ pools[c].running > 0
    /\ pools' = [pools EXCEPT ![c].running = @ - 1]
    /\ UNCHANGED <<pvars, evars, cvars, rvars, ovars>>

\* the with-block of _execute_batch is left: lines 98-135
SharedLeave(c) ==
    /\ pools[c].active
    /\ pools[c].queued = 0 /\ pools[c].running = 0
    /\ pools' = [pools EXCEPT ![c] = IdlePool]
    /\ UNCHANGED <<pvars, evars, cvars, rvars, ovars>>

NextShared ==
    \/ \E c \in 1..NCalls, n \in 1..MaxBatch : SharedSubmit(c, n)
    \/ \E c \in 1..NCalls : SharedStart(c)
    \/ \E c \in 1..NCalls : SharedFinish(c)
    \/ \E c \in 1..NCalls : SharedLeave(c)

SpecShared == InitShared /\ [][NextShared]_vars

-----------------------------------------------------------------------------
\* the pool's threads and the batch driver run whenever they can
FairSpec == Spec /\ WF_vars(Next)

-----------------------------------------------------------------------------
(* FastPlanner._extract_calc_params.  A request text is a sequence of       *)
(* tokens: the numbers "1" and "10", the range word "to" (到, 至, ~), the   *)
(* sum word "sum" (和, 求和, sum, 加), the operator "+", the blank " ", and *)
(* other words: "sq" (平方), "calc" (计算), "de" (的), "w".                 *)

Numbers == {"1", "10"}
Tokens == Numbers \cup {"to", "sum", "+", " ", "sq", "w"}

NumVal(t) == IF t = "1" THEN 1 ELSE 10

IsNum(t) == t \in Numbers

\* the characters of the class [\d\+\-\*\/\(\)\s]
IsMathToken(t) == IsNum(t) \/ t = "+" \/ t = " "

\* two number tokens side by side would be one longer number
WellFormed(q) == \A i \in 1..(Len(q) - 1) : ~(IsNum(q[i]) /\ IsNum(q[i + 1]))

\* the request of the planner's sum-of-squares example: 计算 1 到 10 的平方和
SquareSumRequest == <<"calc", " ", "1", " ", "to", " ", "10", " ", "de", "sq", "sum">>

IsQuery(q) ==
    \/ q = SquareSumRequest
    \/ \E n \in 0..MaxTokens : q \in [1..n -> Tokens] /\ WellFormed(q)

\* \s* from position i: the first position that holds no blank
RECURSIVE SkipBlanks(_, _)
SkipBlanks(q, i) == IF i <= Len(q) /\ q[i] = " " THEN SkipBlanks(q, i + 1) ELSE i

\* (\d+)\s*(?:到|至|~|-)\s*(\d+) matches with its first number at position i
RangeAt(q, i) ==
    /\ IsNum(q[i])
    /\ LET j == SkipBlanks(q, i + 1)
       IN /\ j <= Len(q) /\ q[j] = "to"
          /\ LET k == SkipBlanks(q, j + 1) IN k <= Len(q) /\ IsNum(q[k])

RangeStarts(q) == {i \in DOMAIN q : RangeAt(q, i)}

SetMin(S) == CHOOSE m \in S : \A x \in S : m <= x

\* line 313: re.search, the leftmost match; its two groups
RangeMatch(q) ==
    LET i == SetMin(RangeStarts(q))
        k == SkipBlanks(q, SkipBlanks(q, i + 1) + 1)
    IN [start |-> q[i], end |-> q[k]]

\* line 314: any(kw in query for kw in ['和', '求和', 'sum', '加'])
HasSumWord(q) == "sum" \in Range(q)

\* the end of the run of class characters that starts at position i
RECURSIVE RunEnd(_, _)
RunEnd(q, i) == IF i < Len(q) /\ IsMathToken(q[i + 1]) THEN RunEnd(q, i + 1) ELSE i

\* str.strip() of a token sequence
RECURSIVE Strip(_)
Strip(e) ==
    IF e = <<>> THEN e
    ELSE IF Head(e) = " " THEN Strip(Tail(e))
    ELSE IF e[Len(e)] = " " THEN Strip(SubSeq(e, 1, Len(e) - 1))
    ELSE e

MathStarts(q) == {i \in DOMAIN q : IsMathToken(q[i])}

\* lines 323-325: the leftmost longest run of class characters, stripped
MathExpr(q) ==
    LET i == SetMin(MathStarts(q)) IN Strip(SubSeq(q, i, RunEnd(q, i)))

\* line 332: re.findall(r'\d+', query)
FindNumbers(q) == SelectSeq(q, IsNum)

\* lines 312-339: the generated code, by its form and the values filled in
ExtractCalcCode(q) ==
    IF RangeStarts(q) # {} /\ HasSumWord(q)
    THEN [form |-> "range_sum", start |-> RangeMatch(q).start, end |-> RangeMatch(q).end]
    ELSE IF MathStarts(q) # {}
         THEN [form |-> "expr", expr |-> MathExpr(q)]
         ELSE IF Len(FindNumbers(q)) >= 2
              THEN [form |-> "list_sum", numbers |-> FindNumbers(q)]
              ELSE [form |-> "unrecognized"]

ExtractCalcParams(q) == [code |-> ExtractCalcCode(q)]

RECURSIVE SumRange(_, _)
SumRange(a, b) == IF a > b THEN 0 ELSE a + SumRange(a + 1, b)

RECURSIVE SumTokens(_)
SumTokens(e) ==
    IF e = <<>> THEN 0
    ELSE (IF IsNum(Head(e)) THEN NumVal(Head(e)) ELSE 0) + SumTokens(Tail(e))

\* a Python expression of numbers, "+" and blanks: it ends with a number and
\* no two numbers follow each other
IsExpression(e) ==
    LET d == SelectSeq(e, LAMBDA t : t # " ")
    IN /\ d # <<>>
       /\ IsNum(d[Len(d)])
       /\ \A i \in 1..(Len(d) - 1) : ~(IsNum(d[i]) /\ IsNum(d[i + 1]))

NoValue == [ok |-> FALSE, value |-> 0]
Value(n) == [ok |-> TRUE, value |-> n]

\* what the generated code assigns to result when it is run
RunCode(code) ==
    CASE code.form = "range_sum" -> Value(SumRange(NumVal(code.start), NumVal(code.end)))
      [] code.form = "expr" -> IF IsExpression(code.expr) THEN Value(SumTokens(code.expr)) ELSE NoValue
      [] code.form = "list_sum" -> Value(SumTokens(code.numbers))
      [] OTHER -> NoValue

InitCalc ==
    /\ POff /\ EOff /\ SOff /\ ROff /\ OOff
    /\ IsQuery(calc_query)
    /\ calc_params = NoParams

\* _extract_calc_params(query, context) is called and returns
ExtractCalc ==
    /\ calc_params = NoParams
    /\ calc_params' = ExtractCalcParams(calc_query)
    /\ UNCHANGED <<calc_query, pvars, evars, svars, rvars, ovars>>

NextCalc == ExtractCalc

SpecCalc == InitCalc /\ [][NextCalc]_vars

-----------------------------------------------------------------------------
(* ResultPolisher.  A string is modelled by what the formatter reads of it:  *)
(* a name that tells strings apart, its length, and the position of its     *)
(* first line break (0 when it has none).  An answer is the sequence of the *)
(* strings it is put together from.                                         *)

Text(name, len, nl) == [name |-> name, len |-> len, nl |-> nl]

\* a literal of the source
Lit(name, len) == Text(name, len, 0)

SIMPLE_LIMIT == 500     \* line 207: len(output) < 500
FIRST_WINDOW == 100     \* line 207: output[:100]
STEP_LIMIT == 500       \* line 218: len(output) > 500

\* the outputs a tool may have produced, per task: strings, None, a dict
OutputKinds == {"empty", "short", "break_early", "break_late", "limit", "long", "none", "dict"}

Output(kind, id) ==
    CASE kind = "empty" -> [type |-> "str", text |-> Text("empty_" \o id, 0, 0)]
      [] kind = "short" -> [type |-> "str", text |-> Text("short_" \o id, 12, 0)]
      [] kind = "break_early" -> [type |-> "str", text |-> Text("break_early_" \o id, 120, 50)]
      [] kind = "break_late" -> [type |-> "str", text |-> Text("break_late_" \o id, 120, 101)]
      [] kind = "limit" -> [type |-> "str", text |-> Text("limit_" \o id, 500, 0)]
      [] kind = "long" -> [type |-> "str", text |-> Text("long_" \o id, 600, 0)]
      [] kind = "none" -> [type |-> "NoneType", text |-> Text("None", 4, 0)]
      [] kind = "dict" -> [type |-> "dict", text |-> Text("repr_" \o id, 30, 0)]

\* str(result.output): the string itself, or the rendering of another value
Str(output) == output.text

ErrorText(id) == Text("error_" \o id, 9, 0)

\* the ToolResult of the i-th task of the map
PolishResult(i, success, kind) ==
    ToolResult(TaskId(i - 1), "code_execution", success, Output(kind, TaskId(i - 1)),
               IF success THEN NoError ELSE ErrorText(TaskId(i - 1)), 0)

QueryTexts == {Text("query", 8, 0), Text("empty_query", 0, 0)}

\* the text a generator may answer with
Responses == {Text("response", 40, 5), Text("empty_response", 0, 0)}

\* a collection of the results whatever their success
AnyResults(results_) == results_

\* line 196: [r for r in results.values() if r.success]
SuccessResults(results_) == SelectSeq(results_, LAMBDA r : r.success)

\* output[:n]
Prefix(t, n) == Text(t.name \o "[:n]", n, IF t.nl <= n THEN t.nl ELSE 0)

\* lines 215-220: the lines of one step
StepLines(r) ==
    LET output == Str(r.output)
    IN <<Lit("step header", 8), Lit(r.tool, 14), Lit("newline", 1)>>
       \o (IF output.len > STEP_LIMIT
           THEN <<Prefix(output, STEP_LIMIT), Lit("truncated mark", 8)>>
           ELSE <<output>>)
       \o <<Lit("newline", 1)>>

RECURSIVE AllStepLines(_)
AllStepLines(rs) == IF rs = <<>> THEN <<>> ELSE StepLines(Head(rs)) \o AllStepLines(Tail(rs))

\* _fallback_format, lines 196-222
FallbackFormat(query, results_) ==
    LET success_results == SuccessResults(results_)
    IN IF success_results = <<>>
       THEN <<Lit("task failed, question: ", 14), query, Lit("check the tools or retry", 13)>>
       ELSE IF Len(success_results) = 1
            THEN LET output == Str(success_results[1].output)
                 IN IF output.len < SIMPLE_LIMIT /\ ~(output.nl \in 1..FIRST_WINDOW)
                    THEN <<output>>
                    ELSE <<Lit("**", 2), Lit(success_results[1].tool, 14),
                           Lit(" result**:", 11), output>>
            ELSE <<Lit("**question**: ", 8), query, Lit("newline", 1)>>
                 \o AllStepLines(success_results)

\* an answer that puts a heading before the generator's text
PolishedAnswerWithHeading(response) == <<Lit("heading", 7), response>>

\* lines 141-147: answer = response.content, returned as it is
PolishedAnswer(response) == <<response>>

\* an error path that answers with the error message
OnInvokeErrorMessage(query, results_) == <<Lit("polish failed", 13)>>

\* lines 149-152: except Exception: return self._fallback_format(...)
OnInvokeError(query, results_) == FallbackFormat(query, results_)

IsResultMap(rs) ==
    \E n \in 0..MaxResults :
        \E ok \in [1..n -> BOOLEAN], kinds \in [1..n -> OutputKinds] :
            rs = [i \in 1..n |-> PolishResult(i, ok[i], kinds[i])]

\* polish(user_query, plan, results) is called
InitPolish ==
    /\ POff /\ EOff /\ SOff /\ COff /\ OOff
    /\ r_pc = "call"
    /\ r_llm \in {"none", "configured"}
    /\ r_query \in QueryTexts
    /\ IsResultMap(r_results)
    /\ r_calls = 0
    /\ r_via = "none"
    /\ r_answer = <<>>

\* lines 113-115: no generator is configured
PolishWithoutLLM ==
    /\ r_pc = "call"
    /\ r_llm = "none"
    /\ r_answer' = FallbackFormat(r_query, r_results)
    /\ r_via' = "fallback"
    /\ r_pc' = "returned"
    /\ UNCHANGED <<r_llm, r_query, r_results, r_calls, pvars, evars, svars, cvars, ovars>>

\* lines 117-141: the messages are built and self.llm.invoke is called
PolishInvoke ==
    /\ r_pc = "call"
    /\ r_llm = "configured"
    /\ r_calls' = r_calls + 1
    /\ r_pc' = "invoking"
    /\ UNCHANGED <<r_llm, r_query, r_results, r_via, r_answer, pvars, evars, svars, cvars, ovars>>

\* lines 141-147: the generator answers
LLMReturns(response) ==
    /\ r_pc = "invoking"
    /\ r_answer' = PolishedAnswer(response)
    /\ r_via' = "generator"
    /\ r_pc' = "returned"
    /\ UNCHANGED <<r_llm, r_query, r_results, r_calls, pvars, evars, svars, cvars, ovars>>

\* lines 149-152: the generator call raises (an error, or its request timeout)
LLMRaises ==
    /\ r_pc = "invoking"
    /\ r_answer' = OnInvokeError(r_query, r_results)
    /\ r_via' = "fallback"
    /\ r_pc' = "returned"
    /\ UNCHANGED <<r_llm, r_query, r_results, r_calls, pvars, evars, svars, cvars, ovars>>

NextPolish ==
    \/ PolishWithoutLLM
    \/ PolishInvoke
    \/ \E response \in Responses : LLMReturns(response)
    \/ LLMRaises

SpecPolish == InitPolish /\ [][NextPolish]_vars

-----------------------------------------------------------------------------
(* fast_agent_invoke, the orchestrator (src/src/orchestrator/graph.py).     *)
(* The planner and the executor are called as wholes: the planner returns a *)
(* plan of n tasks or raises, the executor returns one result per task.     *)

MaxMessages == 2    \* messages in state["messages"]
MaxElapsed == 1     \* elapsed milliseconds a response may report

GQuery == Text("query", 8, 0)

\* the plan of n tasks the planner returns
GraphPlan(n) ==
    [tasks |-> [i \in 1..n |-> Task(TaskId(i - 1), CALCULATE, "code_execution",
                                    [code |-> "calc_code"], {}, 3, 1500)],
     parallel_batches |-> IF n = 0 THEN <<>> ELSE <<[i \in 1..n |-> TaskId(i - 1)]>>,
     total_estimated_ms |-> IF n = 0 THEN 0 ELSE 1500,
     requires_llm_polish |-> NeedsPolish(<<>>)]

\* the recent_turns the orchestrator hands to the planner: message objects
GraphRequest == [cont |-> g_cont, turns |-> IF g_messages > 1 THEN "messages" ELSE "none"]

\* lines 57-60: the dict returned for an empty message list
InvalidResponse ==
    [messages |-> 1, final_answer |-> <<Lit("error: no input message", 9)>>]

\* line 121: the answer when the generator call raised
ApologyAnswer == <<Lit("question: ", 3), GQuery, Lit("cannot answer, check the API configuration", 24)>>

\* line 124: the answer when no generator is configured
MissingKeyAnswer == <<Lit("question: ", 3), GQuery, Lit("OPENROUTER_API_KEY needed", 34)>>

\* lines 118 and 122: llm_calls on the direct path
DirectCalls(raised) == IF raised THEN 0 ELSE 1

\* line 84: plan.tasks[0].tool if plan.tasks else "none"
NextAction(p) == IF p.tasks = <<>> THEN "none" ELSE p.tasks[1].tool

\* lines 129-139: the dict returned on the direct-answer path
DirectResponse(answer, llm_calls, ms) ==
    [messages |-> g_messages + 1,
     final_answer |-> answer,
     total_time_ms |-> ms,
     llm_calls |-> llm_calls,
     plan |-> <<>>,
     parallel_batches |-> g_plan.parallel_batches,
     next_action |-> NextAction(g_plan),
     is_complete |-> TRUE,
     plan_estimated_ms |-> g_plan.total_estimated_ms]

\* lines 149-150: success_count and total_count
SuccessCount(rs) == Len(SelectSeq(rs, LAMBDA r : r.success))
TotalCount(rs) == Len(rs)

\* lines 176-198: the dict returned on the tool path
ToolResponse(answer, llm_calls, ms) ==
    [messages |-> g_messages + 1,
     final_answer |-> answer,
     total_time_ms |-> ms,
     llm_calls |-> llm_calls,
     success_rate |-> <<SuccessCount(g_results), "/", TotalCount(g_results)>>,
     plan |-> [i \in DOMAIN g_plan.tasks |-> g_plan.tasks[i].id],
     parallel_batches |-> g_plan.parallel_batches,
     next_action |-> NextAction(g_plan),
     is_complete |-> TRUE,
     plan_estimated_ms |-> g_plan.total_estimated_ms,
     tool_results |-> [i \in DOMAIN g_results |-> g_results[i].task_id]]

\* an orchestrator that runs the executor for an empty plan too
TakesDirectPathNever(p) == FALSE

\* line 89: if not plan.tasks
TakesDirectPath(p) == p.tasks = <<>>

\* lines 92 and 155: plan.requires_llm_polish and result_polisher.llm
UsesGenerator == g_plan.requires_llm_polish /\ g_llm = "configured"

InitGraph ==
    /\ POff /\ EOff /\ SOff /\ COff /\ ROff /\ TOff /\ KOff
    /\ g_pc = "start"
    /\ g_messages \in 0..MaxMessages
    /\ g_cont \in BOOLEAN
    /\ g_llm \in {"none", "configured"}
    /\ g_plan = NoPlan
    /\ g_results = <<>>
    /\ g_invocations = 0
    /\ g_trace = <<>>
    /\ g_response = NoResponse

\* lines 55-60: no message
GraphNoMessages ==
    /\ g_pc = "start"
    /\ g_messages = 0
    /\ g_response' = InvalidResponse
    /\ g_pc' = "returned"
    /\ UNCHANGED <<g_messages, g_cont, g_llm, g_plan, g_results, g_invocations, g_trace,
                   pvars, evars, svars, cvars, rvars, tvars, kvars>>

\* lines 62-86: fast_planner.plan returns a plan of n tasks
GraphPlans(n) ==
    /\ g_pc = "start"
    /\ g_messages > 0
    /\ ~ClassifyRaises(GraphRequest)
    /\ g_trace' = Append(g_trace, "planner")
    /\ g_plan' = GraphPlan(n)
    /\ g_pc' = "planned"
    /\ UNCHANGED <<g_messages, g_cont, g_llm, g_results, g_invocations, g_response,
                   pvars, evars, svars, cvars, rvars, tvars, kvars>>

\* lines 62-81: fast_planner.plan raises, and nothing catches it
GraphPlanRaises ==
    /\ g_pc = "start"
    /\ g_messages > 0
    /\ ClassifyRaises(GraphRequest)
    /\ g_trace' = Append(g_trace, "planner")
    /\ g_pc' = "raised"
    /\ UNCHANGED <<g_messages, g_cont, g_llm, g_plan, g_results, g_invocations, g_response,
                   pvars, evars, svars, cvars, rvars, tvars, kvars>>

\* lines 89-92 and 123-139: empty plan, no generator
DirectWithoutLLM ==
    /\ g_pc = "planned"
    /\ TakesDirectPath(g_plan)
    /\ ~UsesGenerator
    /\ \E ms \in 0..MaxElapsed : g_response' = DirectResponse(MissingKeyAnswer, 0, ms)
    /\ g_pc' = "returned"
    /\ UNCHANGED <<g_messages, g_cont, g_llm, g_plan, g_results, g_invocations, g_trace,
                   pvars, evars, svars, cvars, rvars, tvars, kvars>>

\* lines 89-116: empty plan, result_polisher.llm.invoke is called
DirectInvoke ==
    /\ g_pc = "planned"
    /\ TakesDirectPath(g_plan)
    /\ UsesGenerator
    /\ g_invocations' = g_invocations + 1
    /\ g_trace' = Append(g_trace, "generator")
    /\ g_pc' = "direct"
    /\ UNCHANGED <<g_messages, g_cont, g_llm, g_plan, g_results, g_response,
                   pvars, evars, svars, cvars, rvars, tvars, kvars>>

\* lines 116-118 and 127-139: the generator answers
DirectReturns(response) ==
    /\ g_pc = "direct"
    /\ \E ms \in 0..MaxElapsed :
           g_response' = DirectResponse(<<response>>, DirectCalls(FALSE), ms)
    /\ g_pc' = "returned"
    /\ UNCHANGED <<g_messages, g_cont, g_llm, g_plan, g_results, g_invocations, g_trace,
                   pvars, evars, svars, cvars, rvars, tvars, kvars>>

\* lines 119-122 and 127-139: the generator call raises
DirectRaises ==
    /\ g_pc = "direct"
    /\ \E ms \in 0..MaxElapsed :
           g_response' = DirectResponse(ApologyAnswer, DirectCalls(TRUE), ms)
    /\ g_pc' = "returned"
    /\ UNCHANGED <<g_messages, g_cont, g_llm, g_plan, g_results, g_invocations, g_trace,
                   pvars, evars, svars, cvars, rvars, tvars, kvars>>

\* lines 141-150: parallel_executor.execute(plan) returns
GraphExecutes ==
    /\ g_pc = "planned"
    /\ ~TakesDirectPath(g_plan)
    /\ g_trace' = Append(g_trace, "executor")
    /\ \E ok \in [DOMAIN g_plan.tasks -> BOOLEAN] :
           g_results' = [i \in DOMAIN g_plan.tasks |->
                            PolishResult(i, ok[i], IF ok[i] THEN "short" ELSE "none")]
    /\ g_pc' = "executed"
    /\ UNCHANGED <<g_messages, g_cont, g_llm, g_plan, g_invocations, g_response,
                   pvars, evars, svars, cvars, rvars, tvars, kvars>>

\* lines 160-164 and 166-198: no generator, _fallback_format
GraphFallback ==
    /\ g_pc = "executed"
    /\ ~UsesGenerator
    /\ g_trace' = Append(g_trace, "fallback")
    /\ \E ms \in 0..MaxElapsed :
           g_response' = ToolResponse(FallbackFormat(GQuery, g_results), 0, ms)
    /\ g_pc' = "returned"
    /\ UNCHANGED <<g_messages, g_cont, g_llm, g_plan, g_results, g_invocations,
                   pvars, evars, svars, cvars, rvars, tvars, kvars>>

\* lines 155-158: result_polisher.polish is called and calls the generator
GraphPolish ==
    /\ g_pc = "executed"
    /\ UsesGenerator
    /\ g_trace' = g_trace \o <<"polisher", "generator">>
    /\ g_invocations' = g_invocations + 1
    /\ g_pc' = "polishing"
    /\ UNCHANGED <<g_messages, g_cont, g_llm, g_plan, g_results, g_response,
                   pvars, evars, svars, cvars, rvars, tvars, kvars>>

\* lines 158-159 and 166-198: polish returns the generator's text
PolishReturns(response) ==
    /\ g_pc = "polishing"
    /\ \E ms \in 0..MaxElapsed :
           g_response' = ToolResponse(PolishedAnswer(response), 1, ms)
    /\ g_pc' = "returned"
    /\ UNCHANGED <<g_messages, g_cont, g_llm, g_plan, g_results, g_invocations, g_trace,
                   pvars, evars, svars, cvars, rvars, tvars, kvars>>

\* lines 158-159 and 166-198: the call raised inside polish, which fell back
PolishFallsBack ==
    /\ g_pc = "polishing"
    /\ \E ms \in 0..MaxElapsed :
           g_response' = ToolResponse(OnInvokeError(GQuery, g_results), 1, ms)
    /\ g_pc' = "returned"
    /\ UNCHANGED <<g_messages, g_cont, g_llm, g_plan, g_results, g_invocations, g_trace,
                   pvars, evars, svars, cvars, rvars, tvars, kvars>>

NextGraph ==
    \/ GraphNoMessages
    \/ \E n \in 0..MaxResults : GraphPlans(n)
    \/ GraphPlanRaises
    \/ DirectWithoutLLM
    \/ DirectInvoke
    \/ \E response \in Responses : DirectReturns(response)
    \/ DirectRaises
    \/ GraphExecutes
    \/ GraphFallback
    \/ GraphPolish
    \/ \E response \in Responses : PolishReturns(response)
    \/ PolishFallsBack

SpecGraph == InitGraph /\ [][NextGraph]_vars

-----------------------------------------------------------------------------
(* retry_with_backoff (src/src/utils/error_handling.py): one call of the    *)
(* wrapper around a function that returns a value, raises one of the listed *)
(* exceptions, or raises another exception.                                 *)

MaxRetries == 4         \* max_retries of the decorator
INITIAL_DELAY == 1      \* line 309: initial_delay
BACKOFF_FACTOR == 2     \* line 310: backoff_factor

ReturnValues == {"v1", "v2"}
ListedExceptions == {"E1", "E2"}
OtherExceptions == {"X"}

CallEvent(kind, what) == [ev |-> "call", kind |-> kind, what |-> what]
SleepEvent(delay) == [ev |-> "sleep", kind |-> "sleep", what |-> delay]

Returned_(value) == [kind |-> "returned", what |-> value]
Raised_(exception) == [kind |-> "raised", what |-> exception]

\* a wrapper that sleeps after every failed attempt
ShouldSleepAlways(attempt, max_retries) == TRUE

\* line 331: if attempt < max_retries - 1
ShouldSleep(attempt, max_retries) == attempt < max_retries - 1

InitRetry ==
    /\ POff /\ EOff /\ SOff /\ COff /\ ROff /\ GOff /\ KOff
    /\ t_pc = "loop"
    /\ t_max \in 0..MaxRetries
    /\ t_attempt = 0
    /\ t_delay = INITIAL_DELAY
    /\ t_last = NoneVal
    /\ t_log = <<>>
    /\ t_outcome = NoOutcome

\* lines 324-326: func returns, and the wrapper returns its value
FuncReturns(value) ==
    /\ t_pc = "loop"
    /\ t_attempt < t_max
    /\ t_log' = Append(t_log, CallEvent("returned", value))
    /\ t_outcome' = Returned_(value)
    /\ t_pc' = "done"
    /\ UNCHANGED <<t_max, t_attempt, t_delay, t_last, pvars, evars, svars, cvars, rvars, gvars, kvars>>

\* lines 324-338: func raises a listed exception
FuncRaisesListed(exception) ==
    /\ t_pc = "loop"
    /\ t_attempt < t_max
    /\ t_last' = exception
    /\ IF ShouldSleep(t_attempt, t_max)
       THEN /\ t_log' = t_log \o <<CallEvent("raised", exception), SleepEvent(t_delay)>>
            /\ t_delay' = t_delay * BACKOFF_FACTOR
       ELSE /\ t_log' = Append(t_log, CallEvent("raised", exception))
            /\ t_delay' = t_delay
    /\ t_attempt' = t_attempt + 1
    /\ UNCHANGED <<t_pc, t_max, t_outcome, pvars, evars, svars, cvars, rvars, gvars, kvars>>

\* lines 324-327: func raises an exception that is not listed; it propagates
FuncRaisesOther(exception) ==
    /\ t_pc = "loop"
    /\ t_attempt < t_max
    /\ t_log' = Append(t_log, CallEvent("raised", exception))
    /\ t_outcome' = Raised_(exception)
    /\ t_pc' = "done"
    /\ UNCHANGED <<t_max, t_attempt, t_delay, t_last, pvars, evars, svars, cvars, rvars, gvars, kvars>>

\* lines 339-340: the loop is over; the last exception is raised, if there is one
LoopEnds ==
    /\ t_pc = "loop"
    /\ t_attempt >= t_max
    /\ t_outcome' = IF t_last # NoneVal THEN Raised_(t_last) ELSE Returned_(NoneVal)
    /\ t_pc' = "done"
    /\ UNCHANGED <<t_max, t_attempt, t_delay, t_last, t_log, pvars, evars, svars, cvars, rvars, gvars, kvars>>

NextRetry ==
    \/ \E value \in ReturnValues : FuncReturns(value)
    \/ \E exception \in ListedExceptions : FuncRaisesListed(exception)
    \/ \E exception \in OtherExceptions : FuncRaisesOther(exception)
    \/ LoopEnds

SpecRetry == InitRetry /\ [][NextRetry]_vars

-----------------------------------------------------------------------------
(* CacheManager (src/src/utils/cache.py): one table, a clock, and the       *)
(* operations get, set, delete, clear_expired and clear_all.  Values are    *)
(* stored as JSON text.                                                     *)

MaxTime == 3        \* the clock runs from 0 to MaxTime
CacheTtl == 2       \* self.ttl of the manager

CacheKeys == {"k1", "k2"}

\* Python values handed to set
PyStr == [type |-> "str", v |-> <<"s">>]
PyTuple == [type |-> "tuple", v |-> <<1, 2>>]
PyNone == [type |-> "NoneType", v |-> <<>>]
PyValues == {PyStr, PyTuple, PyNone}

\* line 94: json.dumps(value, default=str)
JsonDumps(value) ==
    CASE value.type = "str" -> [json |-> "string", v |-> value.v]
      [] value.type \in {"tuple", "list"} -> [json |-> "array", v |-> value.v]
      [] value.type = "NoneType" -> [json |-> "null", v |-> <<>>]

\* line 77: json.loads(row[0])
JsonLoads(text) ==
    CASE text.json = "string" -> [type |-> "str", v |-> text.v]
      [] text.json = "array" -> [type |-> "list", v |-> text.v]
      [] text.json = "null" -> PyNone

\* the ttl argument of set: not given, or a number of seconds
NoTtl == [given |-> FALSE, ttl |-> 0]
Ttl(n) == [given |-> TRUE, ttl |-> n]
TtlArgs == {NoTtl, Ttl(0), Ttl(1)}

\* lines 82-83: if ttl is None: ttl = self.ttl
EffectiveTtl(arg) == IF arg.given THEN arg.ttl ELSE CacheTtl

Row(value, created_at, expires_at) ==
    [value |-> value, created_at |-> created_at, expires_at |-> expires_at]

\* lines 69-73: SELECT value FROM cache WHERE key = ? AND expires_at > ?
Select(rows, key, now) ==
    IF key \in DOMAIN rows /\ rows[key].expires_at > now THEN <<rows[key]>> ELSE <<>>

Without(m, S) == [x \in DOMAIN m \ S |-> m[x]]

InitCache ==
    /\ POff /\ EOff /\ SOff /\ COff /\ ROff /\ GOff /\ TOff
    /\ k_rows = EmptyMap
    /\ k_now = 0
    /\ k_last = EmptyMap
    /\ k_got = NoGet

\* get, lines 63-78
CacheGet(key) ==
    /\ LET row == Select(k_rows, key, k_now)
       IN k_got' = [key |-> key,
                    value |-> IF row # <<>> THEN JsonLoads(row[1].value) ELSE PyNone]
    /\ UNCHANGED <<k_rows, k_now, k_last, pvars, evars, svars, cvars, rvars, gvars, tvars>>

\* set, lines 80-97: INSERT OR REPLACE
CacheSet(key, value, arg) ==
    /\ k_rows' = Put(k_rows, key, Row(JsonDumps(value), k_now, k_now + EffectiveTtl(arg)))
    /\ k_last' = Put(k_last, key, [value |-> value, at |-> k_now,
                                   ttl |-> EffectiveTtl(arg), removed |-> FALSE])
    /\ k_got' = NoGet
    /\ UNCHANGED <<k_now, pvars, evars, svars, cvars, rvars, gvars, tvars>>

\* delete, lines 99-105
CacheDelete(key) ==
    /\ k_rows' = Without(k_rows, {key})
    /\ k_last' = [x \in DOMAIN k_last |->
                     IF x = key THEN [k_last[x] EXCEPT !.removed = TRUE] ELSE k_last[x]]
    /\ k_got' = NoGet
    /\ UNCHANGED <<k_now, pvars, evars, svars, cvars, rvars, gvars, tvars>>

\* clear_expired, lines 107-119: DELETE FROM cache WHERE expires_at <= now
ClearExpired ==
    /\ k_rows' = Without(k_rows, {x \in DOMAIN k_rows : k_rows[x].expires_at <= k_now})
    /\ k_got' = NoGet
    /\ UNCHANGED <<k_now, k_last, pvars, evars, svars, cvars, rvars, gvars, tvars>>

\* clear_all, lines 121-127
ClearAll ==
    /\ k_rows' = EmptyMap
    /\ k_last' = [x \in DOMAIN k_last |-> [k_last[x] EXCEPT !.removed = TRUE]]
    /\ k_got' = NoGet
    /\ UNCHANGED <<k_now, pvars, evars, svars, cvars, rvars, gvars, tvars>>

\* time passes between two operations
Tick ==
    /\ k_now < MaxTime
    /\ k_now' = k_now + 1
    /\ k_got' = NoGet
    /\ UNCHANGED <<k_rows, k_last, pvars, evars, svars, cvars, rvars, gvars, tvars>>

NextCache ==
    \/ \E key \in CacheKeys : CacheGet(key)
    \/ \E key \in CacheKeys, value \in PyValues, arg \in TtlArgs : CacheSet(key, value, arg)
    \/ \E key \in CacheKeys : CacheDelete(key)
    \/ ClearExpired
    \/ ClearAll
    \/ Tick

SpecCache == InitCache /\ [][NextCache]_vars

-----------------------------------------------------------------------------
(* Properties of the executor *)

\* the ids of the batches before batch k
EarlierIds(k) == UNION {Range(plan.parallel_batches[j]) : j \in 1..(k - 1)}

\* the tool of id has been invoked
Invoked == DOMAIN calls

IsRegistered(id) == PlanTask(id).tool \in Registered

\* the dependencies of an invoked task whose result its worker saw, successful
SeenSuccessful(id) ==
    {d \in PlanTask(id).dependencies : d \in DOMAIN calls[id].seen /\ calls[id].seen[d].success}

IsWriteTask(task) ==
    task.intent = FILE_OP /\ "operation" \in DOMAIN task.params /\ task.params["operation"] = "write"

AnyBlocked == \E id \in DOMAIN status : status[id] = "blocked"

\* C3: when the tool of a task of batch k is invoked, every task of every
\* earlier batch has finished, its future has been collected and its
\* ToolResult is in the cumulative map; the worker of the later task sees
\* exactly that ToolResult.
C3_BatchBarrier ==
    \A id \in Invoked :
        /\ calls[id].batch \in DOMAIN plan.parallel_batches
        /\ id \in Range(plan.parallel_batches[calls[id].batch])
        /\ \A u \in EarlierIds(calls[id].batch) :
              /\ status[u] = "collected"
              /\ u \in DOMAIN future
              /\ u \in DOMAIN results /\ results[u] = future[u]
              /\ u \in DOMAIN calls[id].seen /\ calls[id].seen[u] = future[u]

\* a task of the third batch runs on the result of its dependency
C3_Witness ==
    \E id \in Invoked :
        /\ calls[id].batch = 3
        /\ \E u \in PlanTask(id).dependencies :
              u \in EarlierIds(3) /\ calls[id].seen[u].success

\* C4: a raising tool fails its own task only: execute returns with a
\* ToolResult for every task, success=false for a task whose tool raised and
\* each other task's own outcome; unless a tool blocks, execute is never
\* stuck before it returns.
C4_FailureIsolated ==
    /\ \A id \in Invoked : (calls[id].outcome = "raised" /\ id \in DOMAIN future) => ~future[id].success
    /\ e_pc = "done" =>
          \A i \in DOMAIN plan.tasks :
              LET id == plan.tasks[i].id
              IN /\ id \in DOMAIN results
                 /\ results[id].task_id = id
                 /\ results[id].success = (id \in Invoked /\ calls[id].outcome = "returned")
    /\ (e_pc # "done" /\ ~AnyBlocked) => ENABLED Next

\* three tasks in one batch: one raised, the others returned
C4_Witness ==
    /\ e_pc = "done"
    /\ Len(plan.tasks) = 3 /\ Len(plan.parallel_batches) = 1
    /\ Cardinality({id \in Invoked : calls[id].outcome = "raised"}) = 1
    /\ Cardinality({id \in DOMAIN results : results[id].success}) = 2

\* C5: a tool call that ran longer than the timeout of its task's intent is
\* recorded with success=false, a timeout error and elapsed_ms equal to the
\* timeout bound.
C5_TimeoutEnforced ==
    \A id \in DOMAIN results :
        (id \in Invoked /\ calls[id].secs > GetTimeout(PlanTask(id))) =>
            /\ ~results[id].success
            /\ results[id].error = TimeoutText(GetTimeout(PlanTask(id)))
            /\ results[id].elapsed_ms = GetTimeout(PlanTask(id)) * 1000

\* C6: whatever the tools do - return, raise or block forever - execute
\* eventually returns.
C6_ExecuteReturns == <>(e_pc = "done")

\* C7 as stated: every successful dependency's output is the injected value.
C7_EachDependencyInjected ==
    \A id \in Invoked : \A a \in SeenSuccessful(id) :
        LET task == PlanTask(id)
            X == calls[id].seen[a].output
        IN IF task.intent = DATA_ANALYSIS
           THEN calls[id].params = Put(NormalizeParams(task.params), "data", X)
           ELSE IF IsWriteTask(task)
                THEN calls[id].params = Put(NormalizeParams(task.params), "content", X)
                ELSE calls[id].params = NormalizeParams(task.params)

\* C7, amended: at dispatch of a task with at least one successful
\* dependency among the results of the earlier batches, a DataAnalysis task
\* receives under data the output of one of its successful dependencies, a
\* FileOp task whose static operation is write receives it under content,
\* and for every other intent or operation injection adds or changes nothing.
C7_OneDependencyInjected ==
    \A id \in Invoked :
        LET task == PlanTask(id)
            norm == NormalizeParams(task.params)
        IN SeenSuccessful(id) # {} =>
             IF task.intent = DATA_ANALYSIS
             THEN \E a \in SeenSuccessful(id) :
                      calls[id].params = Put(norm, "data", calls[id].seen[a].output)
             ELSE IF IsWriteTask(task)
                  THEN \E a \in SeenSuccessful(id) :
                           calls[id].params = Put(norm, "content", calls[id].seen[a].output)
                  ELSE calls[id].params = norm

\* a DataAnalysis task dispatched with two successful dependencies
C7_Witness ==
    \E id \in Invoked :
        /\ PlanTask(id).intent = DATA_ANALYSIS
        /\ Cardinality(SeenSuccessful(id)) = 2

\* C8: while a batch runs the cumulative map holds exactly the results of
\* the earlier batches; what a worker sees of it, and what it injects, comes
\* from earlier batches only, never from a task of its own batch.
C8_OnlyEarlierBatchesSeen ==
    /\ e_pc = "collect" => DOMAIN results = EarlierIds(batch_idx)
    /\ \A id \in Invoked :
          /\ DOMAIN calls[id].seen = EarlierIds(calls[id].batch)
          /\ \A k \in {"data", "content"} \cap DOMAIN calls[id].params :
                \E a \in EarlierIds(calls[id].batch) \cap PlanTask(id).dependencies :
                    calls[id].params[k] = future[a].output

\* a DataAnalysis task is dispatched after a dependency of its own batch
\* (forced there by the cycle branch) has finished successfully
C8_Witness ==
    \E id \in Invoked : \E d \in PlanTask(id).dependencies :
        /\ PlanTask(id).intent = DATA_ANALYSIS
        /\ d \in Range(plan.parallel_batches[calls[id].batch])
        /\ d \in DOMAIN calls[id].local
        /\ calls[id].local[d].success

\* no dependency of the invoked task id has a successful result
NoSuccessfulDependency(id) == PlanTask(id).dependencies # {} /\ SeenSuccessful(id) = {}

\* C9 as stated: a task none of whose dependencies succeeded is invoked with
\* its static parameters.
C9_StaticParams ==
    \A id \in Invoked : NoSuccessfulDependency(id) => calls[id].params = PlanTask(id).params

\* C9, amended: a task whose dependencies failed or have no result is still
\* dispatched; its tool is invoked with the static parameters after the path
\* normalisation of image_path and file_path, nothing is injected, and its
\* success is that of its own tool call.
C9_NormalizedStaticParams ==
    /\ \A id \in Invoked :
          NoSuccessfulDependency(id) =>
             /\ calls[id].params = NormalizeParams(PlanTask(id).params)
             /\ id \in DOMAIN future => future[id].success = (calls[id].outcome = "returned")
    /\ e_pc = "done" => \A id \in DOMAIN status : IsRegistered(id) => id \in Invoked

\* a task has succeeded although its dependency, of an earlier batch, failed
C9_Witness ==
    \E id \in Invoked : \E d \in PlanTask(id).dependencies :
        /\ d \in DOMAIN calls[id].seen
        /\ ~calls[id].seen[d].success
        /\ SeenSuccessful(id) = {}
        /\ id \in DOMAIN results /\ results[id].success

\* C10: a task whose tool is not registered gets, without any tool being
\* invoked and without waiting, a ToolResult with success=false, output None
\* and the tool-not-found error; the other tasks keep their own outcomes.
C10_ToolNotFound ==
    /\ \A id \in DOMAIN status :
          ~IsRegistered(id) =>
             /\ id \notin Invoked
             /\ status[id] \notin {"calling", "blocked"}
             /\ id \in DOMAIN future =>
                   future[id] = [task_id |-> id, tool |-> PlanTask(id).tool, success |-> FALSE,
                                 output |-> NoneVal, error |-> <<"tool", PlanTask(id).tool, "not found">>,
                                 elapsed_ms |-> 0]
             /\ id \in DOMAIN results => results[id] = future[id]
    /\ e_pc = "done" =>
          \A id \in DOMAIN status :
              IsRegistered(id) =>
                 /\ id \in Invoked
                 /\ id \in DOMAIN results
                 /\ results[id].success = (calls[id].outcome = "returned")

\* execute has returned: one task had no tool, another task of its batch succeeded
C10_Witness ==
    /\ e_pc = "done"
    /\ \E id, o \in DOMAIN results :
          /\ ~IsRegistered(id) /\ ~results[id].success
          /\ IsRegistered(o) /\ results[o].success
          /\ \E k \in DOMAIN plan.parallel_batches : {id, o} \subseteq Range(plan.parallel_batches[k])

\* C11: the ToolResult of a task whose tool raised has success=false and an
\* error that carries the exception's type name and its message.
C11_ErrorHasTypeAndMessage ==
    \A id \in DOMAIN results :
        (id \in Invoked /\ calls[id].outcome = "raised") =>
            /\ ~results[id].success
            /\ ToolException.type \in Range(results[id].error)
            /\ ToolException.msg \in Range(results[id].error)

\* C13: the tasks of a batch are submitted, and so admitted by the pool, in
\* the order of the planner's priority-sorted batch list: a task never waits
\* in the pool's queue behind a task of lower priority.
C13_SubmittedByPriority ==
    \A i, j \in DOMAIN queue :
        i < j => PlanTask(queue[i]).priority >= PlanTask(queue[j]).priority

\* the tool invocations in progress on the instance, over the calls 1..c
RECURSIVE InProgress(_)
InProgress(c) == IF c = 0 THEN 0 ELSE pools[c].running + InProgress(c - 1)

\* C12: at every instant at most max_workers tool invocations are in
\* progress on the executor instance, over all its concurrent execute calls.
C12_InstanceWideBound == InProgress(Len(pools)) <= MaxWorkers

\* the batches of the plan partition the ids of its tasks
PartitionsTasks ==
    /\ UniqueIds(plan.tasks)
    /\ Batched(plan.parallel_batches) = Ids(plan.tasks)
    /\ \A k \in DOMAIN plan.parallel_batches :
          /\ Cardinality(Range(plan.parallel_batches[k])) = Len(plan.parallel_batches[k])
          /\ \A j \in DOMAIN plan.parallel_batches :
                j # k => Range(plan.parallel_batches[j]) \cap Range(plan.parallel_batches[k]) = {}

\* C14: for a plan whose batches partition its task ids, each task's tool
\* is invoked at most once, the returned map has exactly the task ids as
\* keys, each result carries its task's id and tool, and a stored
\* ToolResult is never replaced or changed.
C14_OneResultPerTask ==
    /\ [](PartitionsTasks =>
            /\ \A id \in Invoked : calls[id].count = 1
            /\ DOMAIN results \subseteq Ids(plan.tasks)
            /\ \A id \in DOMAIN results :
                  results[id].task_id = id /\ results[id].tool = PlanTask(id).tool
            /\ e_pc = "done" => DOMAIN results = Ids(plan.tasks))
    /\ [][\A id \in DOMAIN results :
             id \in DOMAIN results' /\ results'[id] = results[id]]_vars

\* execute has returned the results of a plan of three batches
C14_Witness ==
    /\ e_pc = "done"
    /\ PartitionsTasks
    /\ Len(plan.parallel_batches) = 3
    /\ DOMAIN results = Ids(plan.tasks)
    /\ \E id \in Invoked : calls[id].count = 1

\* C15: execute leaves the plan unchanged: no step changes the task list,
\* a task's params, dependencies, priority or tool, or parallel_batches;
\* injected outputs and normalised paths are in the per-dispatch copy only.
C15_PlanUnchanged == [][plan' = plan]_vars

\* execute has returned after a call whose parameters had a normalised path
\* and an injected output, neither of them in the task's static parameters
C15_Witness ==
    /\ e_pc = "done"
    /\ \E id \in Invoked :
          /\ calls[id].params # PlanTask(id).params
          /\ "content" \in DOMAIN calls[id].params
          /\ "content" \notin DOMAIN PlanTask(id).params
          /\ calls[id].params["file_path"] # PlanTask(id).params["file_path"]

\* C16: planning is deterministic: a second call of plan with the same
\* request text and context returns a plan identical to the first, the
\* order of the task ids inside each batch included.
C16_PlanningDeterministic ==
    (p_pc = "done" /\ previous # NoPlan) => planned = previous

-----------------------------------------------------------------------------
(* Properties of the plans the planner returns *)

\* plan(user_query, context) has returned
Returned == p_pc = "done" /\ request # NoRequest

HasDocument == \E i \in DOMAIN request.files : IsDoc(request.files[i])

IsImageTask(t) == t.tool = "vision_analysis"

\* C17: a request that matches no intent pattern and has no uploaded files
\* gets a plan with zero tasks, zero batches, total_estimated_ms = 0 and
\* requires_llm_polish = true; every returned plan has requires_llm_polish = true.
C17_PlainQuestionEmptyPlan ==
    Returned =>
        /\ planned.requires_llm_polish
        /\ (request.matched = {} /\ request.files = <<>>) =>
              /\ planned.tasks = <<>>
              /\ planned.parallel_batches = <<>>
              /\ planned.total_estimated_ms = 0

\* the plan of a plain question has been returned
C17_Witness ==
    /\ Returned
    /\ request.matched = {} /\ request.files = <<>>
    /\ planned.tasks = <<>> /\ planned.requires_llm_polish

\* C18: with an uploaded document the returned plan has at least one task of
\* intent FileOp or DataAnalysis and at least one batch, whatever the text.
C18_DocumentGivesFileTask ==
    (Returned /\ HasDocument) =>
        /\ \E i \in DOMAIN planned.tasks : planned.tasks[i].intent \in {FILE_OP, DATA_ANALYSIS}
        /\ planned.parallel_batches # <<>>

\* a document was uploaded with a text that matches no pattern at all
C18_Witness ==
    /\ Returned /\ HasDocument
    /\ request.matched = {}
    /\ \E i \in DOMAIN planned.tasks : planned.tasks[i].tool = "file_operations"

\* C19: an intent detected more than once survives into decomposition once:
\* a plan has at most one task per non-image intent, in particular at most
\* one file_operations task.
C19_OneTaskPerIntent ==
    Returned =>
        \A i, j \in DOMAIN planned.tasks :
            (i # j /\ ~IsImageTask(planned.tasks[i]) /\ ~IsImageTask(planned.tasks[j])) =>
                planned.tasks[i].intent # planned.tasks[j].intent

-----------------------------------------------------------------------------
(* Further properties of the planner *)

\* the latest batch that holds a dependency of the task
LatestDependencyBatch(bs, task) == SetMax({BatchIndex(bs, d) : d \in task.dependencies})

\* C21: for an acyclic task list whose dependencies name tasks of the list,
\* a task without dependencies is in the first batch and a task with
\* dependencies is in the batch right after the latest batch of its
\* dependencies: each batch is the maximal set of ready tasks.
C21_EarliestBatch ==
    (Scheduled /\ UniqueIds(tasks) /\ Acyclic(tasks) /\ Closed(tasks)) =>
        \A i \in DOMAIN tasks :
            /\ tasks[i].id \in Batched(batches)
            /\ BatchIndex(batches, tasks[i].id) =
                  IF tasks[i].dependencies = {} THEN 1
                  ELSE LatestDependencyBatch(batches, tasks[i]) + 1

\* two independent tasks share the first batch, a third follows one of them
C21_Witness ==
    /\ Scheduled /\ request = NoRequest
    /\ Acyclic(tasks) /\ Closed(tasks)
    /\ Len(tasks) = 3 /\ Len(batches) = 2 /\ Len(batches[1]) = 2
    /\ \E i \in DOMAIN tasks : Cardinality(tasks[i].dependencies) = 1

\* C22: _schedule_tasks terminates for every task list, cyclic lists and
\* dependencies on absent ids included; a pass that finds no ready task puts
\* all remaining tasks into one batch, which is the last batch.
\* Termination is stated by its variant: every pass of the loop makes the
\* finite set remaining strictly smaller, and the loop is left when it is empty.
C22_SchedulerTerminates ==
    /\ [](p_pc \in {"loop", "scheduled", "done"} =>
             \A k \in forced : k = Len(batches) /\ remaining = {})
    /\ [][(p_pc = "loop" /\ remaining = {}) => p_pc' = "scheduled"]_vars
    /\ [][(p_pc = "loop" /\ p_pc' = "loop") =>
             Cardinality(remaining') < Cardinality(remaining)]_vars

\* a cyclic list: the forced last batch holds two tasks, after an ordinary batch
C22_Witness ==
    /\ Scheduled /\ request = NoRequest
    /\ ~Acyclic(tasks)
    /\ forced = {Len(batches)}
    /\ Len(batches) = 2 /\ Len(batches[2]) = 2

\* C23: in each batch of a returned plan an image-analysis task precedes
\* every task that is not an image-analysis task.
C23_ImageTasksFirst ==
    Returned =>
        \A k \in DOMAIN planned.parallel_batches :
            \A i, j \in DOMAIN planned.parallel_batches[k] :
                LET a == TaskDict(planned.tasks)[planned.parallel_batches[k][i]]
                    b == TaskDict(planned.tasks)[planned.parallel_batches[k][j]]
                IN (IsImageTask(a) /\ ~IsImageTask(b)) => i < j

\* the largest estimate among the tasks of a batch
BatchMax(b, ts) ==
    CHOOSE m \in {TaskDict(ts)[id].estimated_time_ms : id \in Range(b)} :
        \A id \in Range(b) : TaskDict(ts)[id].estimated_time_ms <= m

\* the sum of the batch maxima of the first k batches
RECURSIVE SumOfBatchMax(_, _, _)
SumOfBatchMax(bs, ts, k) ==
    IF k = 0 THEN 0 ELSE SumOfBatchMax(bs, ts, k - 1) + BatchMax(bs[k], ts)

\* C24: total_estimated_ms of a returned plan is the sum over its batches of
\* the largest estimated_time_ms in the batch, 0 without batches.
C24_TotalIsSumOfBatchMaxima ==
    Returned =>
        planned.total_estimated_ms =
            SumOfBatchMax(planned.parallel_batches, planned.tasks, Len(planned.parallel_batches))

\* a plan of two batches, the first with two tasks of different estimates
C24_Witness ==
    /\ Returned
    /\ Len(planned.parallel_batches) = 2
    /\ \E i, j \in DOMAIN planned.parallel_batches[1] :
          TaskDict(planned.tasks)[planned.parallel_batches[1][i]].estimated_time_ms
             < TaskDict(planned.tasks)[planned.parallel_batches[1][j]].estimated_time_ms

\* C26: plan raises no exception, whatever the request text and the context.
C26_PlanNeverRaises == p_pc # "raised"

-----------------------------------------------------------------------------
(* Properties of the Calculate extractor *)

\* the sum of the squares of a..b
RECURSIVE SumSquares(_, _)
SumSquares(a, b) == IF a > b THEN 0 ELSE a * a + SumSquares(a + 1, b)

\* C25: for the request "计算 1 到 10 的平方和" the generated code computes
\* the sum of the squares of 1..10.
C25_SquareSumCode ==
    (calc_query = SquareSumRequest /\ calc_params # NoParams) =>
        RunCode(calc_params.code) = Value(SumSquares(1, 10))

-----------------------------------------------------------------------------
(* Properties of the polisher *)

Polished == r_pc = "returned"

\* C27: polish invokes the generator exactly once per call when a generator is
\* configured and never when none is configured; when that call succeeds, the
\* answer is the generator's response text and nothing else.
C27_OneCallVerbatim ==
    /\ [](r_calls <= 1)
    /\ [](Polished => r_calls = (IF r_llm = "configured" THEN 1 ELSE 0))
    /\ [][\A response \in Responses :
              LLMReturns(response) => r_answer' = <<response>> /\ r_calls' = 1]_vars

C27_Witness ==
    /\ Polished
    /\ r_llm = "configured"
    /\ r_via = "generator"
    /\ r_calls = 1
    /\ r_answer = <<Text("response", 40, 5)>>

\* C28: if no generator is configured, or the one generator call raises, polish
\* returns the fallback formatting of the same query and results, makes no
\* further generator call, and returns instead of raising.
C28_FallbackOnNoneOrRaise ==
    /\ []((Polished /\ r_llm = "none") => r_via = "fallback")
    /\ []((Polished /\ r_via = "fallback") =>
              /\ r_answer = FallbackFormat(r_query, r_results)
              /\ r_calls = (IF r_llm = "configured" THEN 1 ELSE 0))
    /\ [][LLMRaises =>
              /\ r_pc' = "returned"
              /\ r_answer' = FallbackFormat(r_query, r_results)
              /\ r_calls' = r_calls]_vars
    /\ [][Polished => UNCHANGED rvars]_vars

C28_Witness ==
    /\ Polished
    /\ r_llm = "configured"
    /\ r_via = "fallback"
    /\ r_calls = 1
    /\ Len(r_results) = 2
    /\ r_answer = FallbackFormat(r_query, r_results)

\* the number of characters of an answer
RECURSIVE AnswerLen(_)
AnswerLen(answer) == IF answer = <<>> THEN 0 ELSE Head(answer).len + AnswerLen(Tail(answer))

\* C29: the fallback formatter returns a non-empty string for every query and
\* every result map, including a map whose only successful result has an empty
\* output.
C29_FallbackNonEmpty ==
    (Polished /\ r_via = "fallback") => AnswerLen(r_answer) > 0

Pieces(answer) == {answer[i] : i \in DOMAIN answer}

Successes(rs) == SelectSeq(rs, LAMBDA r : r.success)

Failures(rs) == SelectSeq(rs, LAMBDA r : ~r.success)

ShortSingleLine(t) == t.len < 500 /\ ~(t.nl \in 1..100)

\* C30: with the generator disabled, an answer for a result map without a
\* successful result contains the query text; an answer for a map with exactly
\* one successful result whose output is under 500 characters and has no line
\* break in its first 100 characters is that output unchanged; failed results
\* contribute no text: the answer is the one the successful results alone give,
\* and holds no error text of a failed result.
C30_DisabledGeneratorAnswers ==
    (Polished /\ r_llm = "none") =>
        /\ Successes(r_results) = <<>> => r_query \in Pieces(r_answer)
        /\ (Len(Successes(r_results)) = 1 /\ ShortSingleLine(Str(Successes(r_results)[1].output)))
               => r_answer = <<Str(Successes(r_results)[1].output)>>
        /\ r_answer = FallbackFormat(r_query, Successes(r_results))
        /\ \A i \in DOMAIN r_results :
               ~r_results[i].success => r_results[i].error \notin Pieces(r_answer)

C30_Witness ==
    /\ Polished
    /\ r_llm = "none"
    /\ Len(r_results) = 2
    /\ Len(Successes(r_results)) = 1
    /\ Len(Failures(r_results)) = 1
    /\ ShortSingleLine(Str(Successes(r_results)[1].output))
    /\ r_answer = <<Str(Successes(r_results)[1].output)>>

-----------------------------------------------------------------------------
(* Further properties of the Calculate extractor *)

\* an arithmetic expression between numbers: two numbers with an operator
\* between them, blanks aside
HasArithmetic(q) ==
    \E i \in DOMAIN q :
        /\ IsNum(q[i])
        /\ LET j == SkipBlanks(q, i + 1)
           IN /\ j <= Len(q) /\ q[j] = "+"
              /\ LET k == SkipBlanks(q, j + 1) IN k <= Len(q) /\ IsNum(q[k])

\* at least two integers, no range phrase with a sum word, no arithmetic
PlainNumberList(q) ==
    /\ Len(FindNumbers(q)) >= 2
    /\ ~(RangeStarts(q) # {} /\ HasSumWord(q))
    /\ ~HasArithmetic(q)

\* C37: for a request with at least two integers but neither a range phrase
\* with a sum word nor an arithmetic expression between numbers, the extractor
\* emits code that sums all integers found in the text.
C37_NumberListIsSummed ==
    (calc_params # NoParams /\ PlainNumberList(calc_query)) =>
        /\ calc_params.code.form = "list_sum"
        /\ calc_params.code.numbers = FindNumbers(calc_query)

-----------------------------------------------------------------------------
(* Further properties of the planner *)

IntentsOf(p) == {p.tasks[i].intent : i \in DOMAIN p.tasks}

ImageTasksOf(p) == SelectSeq(p.tasks, IsImageTask)

ImagePathsOf(r) == SelectSeq(FilePaths(r), LAMBDA path : path \in {FilePaths(r)[i] : i \in ImageIndices(r)})

\* C40: when an image is among the uploaded files, the returned plan holds
\* exactly one image-analysis task per uploaded image, in upload order, and no
\* file_operations task, whatever else is uploaded and whatever the text matches.
C40_ImagesReplaceFileTasks ==
    (Returned /\ ImageIndices(request) # {}) =>
        /\ Len(ImageTasksOf(planned)) = Cardinality(ImageIndices(request))
        /\ [i \in DOMAIN ImageTasksOf(planned) |-> ImageTasksOf(planned)[i].params.image_path]
               = ImagePathsOf(request)
        /\ \A i \in DOMAIN planned.tasks : planned.tasks[i].tool # "file_operations"

C40_Witness ==
    /\ Returned
    /\ Len(request.files) = 2
    /\ IsImage(request.files[1])
    /\ IsDoc(request.files[2])
    /\ FILE_OP \in request.matched
    /\ Len(ImageTasksOf(planned)) = 1
    /\ Len(planned.tasks) = 2

-----------------------------------------------------------------------------
(* Further properties of the executor *)

\* C39: the parameters a task is invoked with are determined by the plan and
\* the results its worker saw: every iteration order of the dependency set
\* injects the same value.
C39_InjectionDetermined ==
    \A id \in Invoked :
        \A ord \in Perms(PlanTask(id).dependencies) :
            calls[id].params = ResolveParams(PlanTask(id), calls[id].seen, ord)

-----------------------------------------------------------------------------
(* Properties of the orchestrator *)

Responded == g_pc = "returned"

Keys(response) == DOMAIN response

\* C31: the generator is invoked at most once per request, and the llm_calls
\* value of the response equals the number of generator invocations made,
\* whether the invocation succeeded or raised.
C31_CallsCounted ==
    /\ g_invocations <= 1
    /\ (Responded /\ "llm_calls" \in Keys(g_response)) => g_response.llm_calls = g_invocations

\* C32: every response to a non-empty message list holds a final answer, the
\* elapsed milliseconds, the generator-call count and a success rate
\* succeeded/total over the executed tasks.
C32_ResponseFields ==
    (Responded /\ g_messages > 0) =>
        /\ {"final_answer", "total_time_ms", "llm_calls", "success_rate"} \subseteq Keys(g_response)
        /\ g_response.success_rate =
               <<Len(SelectSeq(g_results, LAMBDA r : r.success)), "/", Len(g_plan.tasks)>>

\* C33: for a plan without tasks neither the executor nor the polisher nor its
\* fallback is called: the generator is called once if one is configured, and
\* its text is the final answer; without one the answer is the
\* configuration-missing message and no generator call is made.  For a plan
\* with tasks the executor runs once, before the polisher or its fallback.
C33_PathsInOrder ==
    /\ []((Responded /\ g_messages > 0 /\ g_plan.tasks = <<>>) =>
              /\ g_trace \in {<<"planner">>, <<"planner", "generator">>}
              /\ g_invocations = (IF g_llm = "configured" THEN 1 ELSE 0)
              /\ g_llm = "none" =>
                     g_response.final_answer = MissingKeyAnswer /\ g_response.llm_calls = 0)
    /\ [][\A response \in Responses :
              DirectReturns(response) => g_response'.final_answer = <<response>>]_vars
    /\ []((Responded /\ g_plan.tasks # <<>>) =>
              g_trace \in {<<"planner", "executor", "polisher", "generator">>,
                           <<"planner", "executor", "fallback">>})

C33_Witness ==
    /\ Responded
    /\ g_plan.tasks = <<>>
    /\ g_messages = 2
    /\ g_llm = "configured"
    /\ g_trace = <<"planner", "generator">>
    /\ g_response.final_answer = <<Text("response", 40, 5)>>

\* what a response that delivers an answer looks like to the caller
IsAnswerShaped(response) == {"messages", "final_answer"} \subseteq Keys(response)

\* C34: an empty message list is reported as a condition of its own, not as an
\* answer, and neither the planner nor the executor nor the generator is called.
C34_InvalidRequestDistinct ==
    (Responded /\ g_messages = 0) =>
        /\ ~IsAnswerShaped(g_response)
        /\ g_trace = <<>>
        /\ g_invocations = 0

-----------------------------------------------------------------------------
(* Properties of retry_with_backoff *)

Invocations == SelectSeq(t_log, LAMBDA e : e.ev = "call")

RaisedListed(e) == e.kind = "raised" /\ e.what \in ListedExceptions

\* C35: with max_retries = n >= 1 the function is invoked until an invocation
\* does not raise a listed exception, at most n times; the wrapper returns the
\* value of the first invocation that returned and invokes no further; if all
\* n invocations raise, it raises the exception of the last one; a delay is
\* taken only between two invocations.
C35_RetryUntilSuccess ==
    (t_max >= 1) =>
        /\ Len(Invocations) <= t_max
        /\ \A i \in 1..(Len(Invocations) - 1) : RaisedListed(Invocations[i])
        /\ \A i \in DOMAIN t_log :
               t_log[i].ev = "sleep" =>
                   /\ i > 1 /\ t_log[i - 1].ev = "call"
                   /\ i < Len(t_log) => t_log[i + 1].ev = "call"
                   /\ (i = Len(t_log)) => t_pc = "loop" /\ t_attempt < t_max
        /\ (t_pc = "done") =>
               LET last == Invocations[Len(Invocations)]
               IN /\ Len(Invocations) >= 1
                  /\ last = t_log[Len(t_log)]
                  /\ last.kind = "returned" => t_outcome = Returned_(last.what)
                  /\ last.kind = "raised" => t_outcome = Raised_(last.what)
                  /\ RaisedListed(last) => Len(Invocations) = t_max

C35_Witness ==
    /\ t_pc = "done"
    /\ t_max = 3
    /\ Len(Invocations) = 3
    /\ RaisedListed(Invocations[1]) /\ RaisedListed(Invocations[2])
    /\ t_outcome = Returned_("v1")
    /\ Len(t_log) = 5

-----------------------------------------------------------------------------
(* Properties of the cache *)

\* the latest set of the key is less than its ttl old and neither a delete of
\* the key nor a clear_all followed it
LatestSetLive(key) ==
    /\ key \in DOMAIN k_last
    /\ ~k_last[key].removed
    /\ k_now - k_last[key].at < k_last[key].ttl

\* C36: get(k) returns the value of the most recent set(k, v) if that set is
\* less than its ttl old and no delete(k) or clear_all followed it, and None in
\* every other case.
C36_GetReturnsLatestSet ==
    (k_got # NoGet) =>
        k_got.value = IF LatestSetLive(k_got.key) THEN k_last[k_got.key].value ELSE PyNone

====
